---- MODULE Spec2Model ----
(***************************************************************************)
(* A model of the broker-session layer of ikbr2:                           *)
(*   src/src/connectors/ibkr/client.py         (IBKRClient)                *)
(*   src/src/connectors/ibkr/data_feed.py      (IBKRDataFeed)              *)
(*   src/src/connectors/ibkr/order_manager.py  (IBKROrderManager)          *)
(*                                                                         *)
(* The vendor transport (ibapi EClient/EWrapper) is the environment: it    *)
(* opens and closes the socket on request, may drop it unexpectedly, and   *)
(* delivers callbacks (connectAck, connectionClosed, nextValidId,          *)
(* accountSummary, orderStatus, ...) on threads of its own choosing.       *)
(***************************************************************************)
EXTENDS Integers, Sequences, FiniteSets, TLC

(***************************************************************************)
(* Bounds of the model.                                                    *)
(***************************************************************************)
MaxOpens == 3       \* transport opens (connect() calls) in one behaviour
MaxDrops == 1       \* unexpected transport closures in one behaviour
MaxOpensReq == 1    \* transport opens where the session is not the subject
MaxReqId == 2       \* largest request id the counter may reach
MaxEvents == 2      \* completion events created in one behaviour
MaxRows == 1        \* account-summary rows accumulated per request
MaxWaiters == 2     \* threads calling get_account_summary_result
MaxOrderId == 1     \* largest order id the gateway reports on
MaxExecObjs == 1    \* execution records created in one behaviour
MaxExecRepeats == 2 \* execution records where execDetails is repeated
MaxTicks == 1       \* raw ticks kept per market-data subscription
MaxBars == 2        \* bars kept per historical-data request
MaxHarvests == 2    \* calls of harvest_data and _store_bars in one behaviour
MaxResponse == 3    \* bars in one vendor response
MaxStart == 2       \* latest timestamp a vendor response starts at
MaxSymbols == 2     \* symbols given to harvest_multiple_symbols
MaxTimeframes == 2  \* timeframes given to harvest_multiple_symbols
MaxParallel == 2    \* largest max_parallel given to harvest_multiple_symbols
MaxData == 3        \* rows the query of verify_data_integrity returns
MaxPasses == 2      \* passes of harvesting_loop over the symbols
MaxInterval == 2    \* iterations of the wait between two passes
MaxPolls == 2       \* iterations of the wait of get_last_price
MaxTrades == 2      \* trades placed through one TradeManager
MaxHistory == 3     \* entries of trade_history
MaxThreads == 2     \* harvesting threads one HarvesterClient starts

ReqIds == 1..MaxReqId
Waiters == 1..MaxWaiters
Quantities == {0, 1}
OrderActions == {"BUY", "HOLD"}
OrderIds == 1..MaxOrderId
ExecIds == {"e1"}
\* The statuses the gateway reports, and the <<filled, remaining, average
\* fill price>> triples it reports with them.
Statuses == {"Submitted", "Filled", "Cancelled", "ApiCancelled"}
Fills == {<<0, 1, 0>>, <<1, 0, 100>>}

\* Tick fields: 1 bid, 2 ask, 4 last (price ticks); 8 volume, 0 bid size
\* (size ticks).
PriceFields == {1, 4}
SizeFields == {0, 8}
\* What the gateway sends as the last price: 4 with a real-time
\* entitlement, 68 (delayed last) without one.
LastFields == {4, 68}

\* The symbols harvested and the prices of the vendor's bars.
Symbols == {"ACME"}
Prices == {0, 1}

Causes == {"unexpected", "deliberate", "timeout"}
Callers == Causes \cup {"user"}

VARIABLES
    \* ---- IBKRClient session state (client.py:81-89)
    connected,          \* self.connected
    auto_reconnect,     \* self.auto_reconnect
    old_auto_reconnect, \* local of disconnect_and_stop
    \* ---- the transport (environment)
    sock,               \* "closed" | "open": EClient's connection
    ackPending,         \* the gateway has not yet acknowledged the open socket
    notif,              \* closures not yet reported through connectionClosed
    lastClose,          \* cause of the most recent closure
    \* ---- threads
    userPc,             \* position of the user thread in a session call
    loops,              \* number of live message-loop threads (_run_client)
    backoff,            \* per cause: threads in the sleep before a reconnect
    attempts,           \* per caller: executions of connect_and_run that have
                        \* opened the transport and are in the wait loop
    \* ---- history
    opensLeft,          \* connect() calls the behaviour may still make
    drops,              \* number of unexpected closures
    reconnects,         \* connect() calls made to recover from them
    userResult,         \* outcome of the user's last session call
    shutdown            \* a deliberate shutdown closed the transport and the
                        \* user has not called connect_and_run since

sessVars == <<connected, auto_reconnect, old_auto_reconnect, sock, ackPending,
              notif, lastClose, userPc, loops, backoff, attempts, opensLeft,
              drops, reconnects, userResult, shutdown>>

VARIABLES
    \* ---- request ids (client.py:91-93)
    req_id,             \* self._req_id
    issuedMax,          \* history: largest id get_next_req_id has returned
    reissued,           \* history: an id was returned that is not larger than
                        \* every id returned before it
    unsolicited,        \* history: the callbacks delivered so far for an id
                        \* that the map they look in did not hold are odd
                        \* in number
    \* ---- response tracking (client.py:95-97)
    responses,          \* self.responses: id -> accumulated rows
    response_events,    \* self.response_events: id -> Event object
    evFlag,             \* the Event objects created so far: their flags
    \* ---- data feed (data_feed.py:36-42)
    market_data,        \* self.market_data: id -> quote
    historical_data,    \* self.historical_data: id -> bars and completion
    tick_callbacks,     \* ids with a tick handler
    bar_callbacks,      \* ids with a bar handler
    quotesLockless,     \* history: the operations that have mutated the
                        \* market-data map or a quote without holding a lock
    \* ---- callers
    opResult,           \* outcome of the last request-issuing call
    wpc,                \* get_account_summary_result: position of each caller
    wid,                \*   its req_id argument
    wev,                \*   the Event object it waits on
    wres,               \*   its local result
    wgot,               \*   the result was popped from a registered entry
    wout                \*   how the call ended

reqVars == <<req_id, issuedMax, reissued, unsolicited, responses, response_events, evFlag,
             market_data, historical_data, tick_callbacks, bar_callbacks,
             quotesLockless, opResult, wpc, wid, wev, wres, wgot, wout>>

VARIABLES
    \* ---- order tracking (order_manager.py:56-63)
    orders,                 \* self.orders: id -> order record
    order_status_callbacks, \* ids with a status handler
    execution_callbacks,    \* ids with an execution handler
    executions,             \* self.executions: exec id -> reference
    execObjs,               \* the execution dicts created so far
    execLists,              \* the 'executions' list objects created so far:
                            \* each a sequence of references into execObjs;
                            \* a record's executions field is a reference
                            \* into execLists
    snapshot,               \* <<>>, or the dict the last get_order_status
                            \* returned (rec) with what its caller read in
                            \* it at that time (seen)
    reported,               \* history: exec ids a commissionReport was
                            \* delivered for
    statusRepeat,           \* history: the last orderStatus callback had
                            \* the arguments of the one delivered before it
                            \* for the same order id
    \* ---- callback delivery
    orders_lock,            \* self.orders_lock: "free" or the thread holding it
    handler,                \* <<>>, or the user-supplied handler the
                            \* delivery thread is executing: its kind, the id
                            \* it was called for, the callback's input, and
                            \* whether it has queried the manager
    deliveryThread,         \* "running", or "crashed" once an exception has
                            \* propagated out of a callback
    loggedErrors,           \* the handler errors the callbacks have logged
    ordersLockless,         \* history: the operations that have mutated the
                            \* order map or an execution record without
                            \* holding orders_lock
    lastStatusCb            \* history: per order id, the arguments of the
                            \* last orderStatus callback delivered since the
                            \* record was last created

ordVars == <<orders, order_status_callbacks, execution_callbacks, executions,
             execObjs, execLists, snapshot, reported, statusRepeat,
             orders_lock, handler, deliveryThread, loggedErrors,
             ordersLockless, lastStatusCb>>

VARIABLES
    \* ---- DataHarvester (database_storage.py:24-52) and its database
    harvesterAttrs,     \* the attributes __init__ assigns on the harvester
    price_data,         \* the rows of table price_data, in insertion order
    symbols_meta,       \* table symbols_meta: symbol -> first_date (<<>> is
                        \* NULL) and update_count
    harvest_log,        \* the status column of the rows of table harvest_log
    harvests            \* history: the calls of harvest_data and
                        \* _store_bars made so far, each with its symbol,
                        \* the vendor's bars, the tables before and after
                        \* it, and the dict it returned

storeVars == <<harvesterAttrs, price_data, symbols_meta, harvest_log,
               harvests>>

VARIABLES
    \* ---- harvest_multiple_symbols (database_storage.py:527-643)
    symbols,            \* the symbols argument: the symbols 1..symbols
    timeframes,         \* the number of entries of the timeframes argument
    max_parallel,       \* the max_parallel argument
    work,               \* per symbol, the loop over its timeframes: where
                        \* it stands (state), its symbol_results and
                        \* success, and as history the outcomes of the
                        \* harvest_data calls made for it (attempted)
    results,            \* the results dict
    multiPc             \* "running", or "returned" after return results

multiVars == <<symbols, timeframes, max_parallel, work, results, multiPc>>

VARIABLES
    \* ---- verify_data_integrity (database_storage.py:645-761)
    timeframe,          \* the timeframe argument: the number it starts with
                        \* and the unit word it contains
    data,               \* the rows the query returns, ordered by timestamp
    verification        \* <<>> before the call, <<the dict returned>> after

integVars == <<timeframe, data, verification>>

VARIABLES
    \* ---- _calculate_data_quality (database_storage.py:422-446)
    scoredBar,          \* the bar argument
    score               \* <<>> before the call; after it <<the outcome>>:
                        \* whether it raised, and the value it returned

qualityVars == <<scoredBar, score>>

VARIABLES
    \* ---- _parse_bar_timestamp (database_storage.py:380-420)
    datedBar,           \* the bar argument
    timestamp           \* <<>> before the call; after it <<the outcome>>:
                        \* whether it raised, and the value it returned

parseVars == <<datedBar, timestamp>>

VARIABLES
    \* ---- HarvesterClient.harvesting_loop (harvester_client.py:196-245)
    stop_event,         \* the cancellation flag: stop_event.is_set()
    clientSymbols,      \* self.symbols: the symbols 1..clientSymbols
    clientTimeframes,   \* self.timeframes: per entry, whether the dict has
                        \* the key 'bar_size'
    interval,           \* interval_hours * 3600, the iterations of the wait
    loopPc,             \* where the harvesting thread stands
    symbolAt,           \* the position of the loop over self.symbols
    timeframeAt,        \* the position of the loop over self.timeframes
    waited,             \* iterations of the wait done in this pass
    passes,             \* passes begun
    attempted,          \* history: the <<symbol, timeframe>> positions for
                        \* which harvest_data was called in this pass
    lateCalls,          \* history: harvest_data calls begun while the flag
                        \* was set
    lateSleeps          \* history: sleeps of the wait that ended while the
                        \* flag was set

loopVars == <<stop_event, clientSymbols, clientTimeframes, interval, loopPc,
              symbolAt, timeframeAt, waited, passes, attempted, lateCalls,
              lateSleeps>>

VARIABLES
    \* ---- a caller of get_last_price (data_feed.py:296-327)
    glPc,               \* where the caller stands
    glId,               \* its local req_id; 0 before request_market_data
    glPolls,            \* iterations of its wait loop done
    glResult,           \* what it returned: <<>> for None, else <<price>>
    glBefore,           \* history: self.market_data when it was called
    glTicks             \* history: the raw ticks of its quote when it
                        \* stopped waiting

priceVars == <<glPc, glId, glPolls, glResult, glBefore, glTicks>>

VARIABLES
    \* ---- TradeManager (trade_manager.py:17-28)
    active_trades,      \* self.active_trades: trade id -> trade
    trade_history,      \* self.trade_history
    tradeIds            \* trade ids generated so far

tradeVars == <<active_trades, trade_history, tradeIds>>

VARIABLES
    \* ---- HarvesterClient (harvester_client.py:48-54); its stop_event is
    \* declared with the harvesting loop
    client,             \* self.client: the base session
    data_feed,          \* self.data_feed: <<>> for None, else <<session>>
    running,            \* self.running
    harvesting_thread,  \* self.harvesting_thread: 0 for None, else a thread
    threads,            \* the harvesting threads started: where each stands
    hcPc,               \* where the caller of stop or update_config stands
    hcResult            \* the last call that returned, and what it returned

clientVars == <<client, data_feed, running, harvesting_thread, threads, hcPc,
                hcResult>>

\* What the operations of the HarvesterClient leave alone of the
\* harvesting loop's state.
loopOwnVars == <<clientSymbols, clientTimeframes, interval, loopPc, symbolAt,
                 timeframeAt, waited, passes, attempted, lateCalls,
                 lateSleeps>>

VARIABLES
    \* ---- a harvest_data call reading the bars of its request
    \* (database_storage.py:165-185, 259-260)
    hdPc,               \* where the call stands
    hdId,               \* its req_id; 0 before request_historical_data
    hdAt,               \* bars the loop of _store_bars has taken
    hdProcessed,        \* the bars it has processed, in order
    hdReturned          \* history: the list when get_historical_data
                        \* returned it

readVars == <<hdPc, hdId, hdAt, hdProcessed, hdReturned>>

VARIABLES
    \* ---- callers of place_order and cancel_order, statement by statement
    \* (order_manager.py:85-112, 121-137)
    placing,            \* <<>>, or <<the call between its with-block and
                        \* self.placeOrder>>
    transmitted,        \* history: the orders sent to the gateway: id ->
                        \* the handlers their place_order call was given
    cancelling,         \* <<>>, or <<the id of the cancel_order call between
                        \* its with-block and self.cancelOrder>>
    coResult,           \* how the last cancel_order call ended
    cancels             \* history: the cancels sent to the gateway, each
                        \* with the record's is_complete when it was sent

callVars == <<placing, transmitted, cancelling, coResult, cancels>>

toolVars == <<multiVars, integVars, qualityVars, parseVars, loopVars,
             priceVars, tradeVars, clientVars, readVars, callVars>>

nonMultiVars == <<sessVars, reqVars, ordVars, storeVars, integVars,
                  qualityVars, parseVars, loopVars, priceVars, tradeVars,
                  clientVars, readVars, callVars>>

nonIntegVars == <<sessVars, reqVars, ordVars, storeVars, multiVars,
                  qualityVars, parseVars, loopVars, priceVars, tradeVars,
                  clientVars, readVars, callVars>>

nonQualityVars == <<sessVars, reqVars, ordVars, storeVars, multiVars,
                    integVars, parseVars, loopVars, priceVars, tradeVars,
                    clientVars, readVars, callVars>>

nonParseVars == <<sessVars, reqVars, ordVars, storeVars, multiVars,
                  integVars, qualityVars, loopVars, priceVars, tradeVars,
                  clientVars, readVars, callVars>>

nonLoopVars == <<sessVars, reqVars, ordVars, storeVars, multiVars, integVars,
                 qualityVars, parseVars, priceVars, tradeVars, clientVars,
                 readVars, callVars>>

nonPriceVars == <<sessVars, ordVars, storeVars, multiVars, integVars,
                  qualityVars, parseVars, loopVars, tradeVars, clientVars,
                  readVars, callVars>>

nonTradeVars == <<sessVars, reqVars, ordVars, storeVars, multiVars,
                  integVars, qualityVars, parseVars, loopVars, priceVars,
                  clientVars, readVars, callVars>>

nonClientVars == <<sessVars, reqVars, ordVars, storeVars, multiVars,
                   integVars, qualityVars, parseVars, priceVars, tradeVars,
                   readVars, callVars>>

nonReadVars == <<sessVars, ordVars, storeVars, multiVars, integVars,
                 qualityVars, parseVars, loopVars, priceVars, tradeVars,
                 clientVars, callVars>>

nonCallVars == <<sessVars, storeVars, multiVars, integVars, qualityVars,
                 parseVars, loopVars, priceVars, tradeVars, clientVars,
                 readVars>>

coreVars == <<sessVars, reqVars, ordVars, storeVars>>

nonSessVars == <<reqVars, ordVars, storeVars, toolVars>>

vars == <<sessVars, reqVars, ordVars, storeVars, toolVars>>

\* Python dict operations on a function whose domain is the set of keys.
Put(f, k, v) == [x \in DOMAIN f \cup {k} |-> IF x = k THEN v ELSE f[x]]
Drop(f, k) == [x \in DOMAIN f \ {k} |-> f[x]]
EmptyMap == [x \in {} |-> 0]

(***************************************************************************)
(* IBKRClient.__init__ (client.py:62-99): the session part.                *)
(***************************************************************************)
SessionInit(autoReconnect, maxOpens) ==
    /\ connected = FALSE
    /\ auto_reconnect = autoReconnect
    /\ old_auto_reconnect = autoReconnect
    /\ sock = "closed"
    /\ ackPending = FALSE
    /\ notif = {}
    /\ lastClose = "none"
    /\ userPc = "idle"
    /\ loops = 0
    /\ backoff = [c \in Causes |-> 0]
    /\ attempts = [c \in Callers |-> 0]
    /\ opensLeft = maxOpens
    /\ drops = 0
    /\ reconnects = 0
    /\ userResult = "none"
    /\ shutdown = FALSE

(***************************************************************************)
(* EClient.disconnect() as seen from the client: an open socket is closed  *)
(* and the closure will be reported through connectionClosed; a closed one *)
(* is left alone.                                                          *)
(***************************************************************************)
TransportClose(cause) ==
    IF sock = "open"
    THEN /\ sock' = "closed"
         /\ ackPending' = FALSE
         /\ notif' = notif \cup {cause}
         /\ lastClose' = cause
    ELSE UNCHANGED <<sock, ackPending, notif, lastClose>>

(***************************************************************************)
(* connect_and_run (client.py:107-137), up to the wait loop: the guard on  *)
(* self.connected, connect(), and the start of the message-loop thread.    *)
(* host and port are never None in the model.  Sets attempts', loops',     *)
(* sock', ackPending', opensLeft', reconnects', userResult', shutdown'.    *)
(***************************************************************************)
ConnectAndRunEnter(caller) ==
    IF connected
    THEN /\ userResult' = IF caller = "user" THEN "already" ELSE userResult
         /\ UNCHANGED <<attempts, loops, sock, ackPending, opensLeft,
                        reconnects, shutdown>>
    ELSE /\ opensLeft > 0
         /\ attempts' = [attempts EXCEPT ![caller] = @ + 1]
         /\ loops' = loops + 1
         /\ sock' = "open"
         /\ ackPending' = TRUE
         /\ opensLeft' = opensLeft - 1
         /\ reconnects' = IF caller = "unexpected"
                          THEN reconnects + 1
                          ELSE reconnects
         /\ userResult' = IF caller = "user" THEN "pending" ELSE userResult
         /\ shutdown' = IF caller = "user" THEN FALSE ELSE shutdown

\* connect_and_run leaves the wait loop: what the caller's thread does next.
ConnectAndRunLeave(caller, result) ==
    /\ attempts[caller] > 0
    /\ attempts' = [attempts EXCEPT ![caller] = @ - 1]
    /\ IF caller = "user"
       THEN /\ userPc' = "idle"
            /\ userResult' = result
       ELSE UNCHANGED <<userPc, userResult>>

\* The user calls connect_and_run.
UserConnect ==
    /\ userPc = "idle"
    /\ ConnectAndRunEnter("user")
    /\ userPc' = IF connected THEN "idle" ELSE "car_wait"
    /\ UNCHANGED <<connected, auto_reconnect, old_auto_reconnect, notif,
                   lastClose, backoff, drops>>
    /\ UNCHANGED nonSessVars

\* connect_and_run: the wait loop ends because self.connected is set
\* (client.py:129-137).
CarConnected(caller) ==
    /\ connected
    /\ ConnectAndRunLeave(caller, "ok")
    /\ UNCHANGED <<connected, auto_reconnect, old_auto_reconnect, sock,
                   ackPending, notif, lastClose, loops, backoff, opensLeft, drops, reconnects, shutdown>>
    /\ UNCHANGED nonSessVars

\* connect_and_run: max_wait_time elapses without self.connected; the client
\* disconnects and raises ConnectionError (client.py:132-135).
CarTimeout(caller) ==
    /\ ~connected
    /\ ConnectAndRunLeave(caller, "ConnectTimeout")
    /\ TransportClose("timeout")
    /\ UNCHANGED <<connected, auto_reconnect, old_auto_reconnect, loops,
                   backoff, opensLeft, drops, reconnects, shutdown>>
    /\ UNCHANGED nonSessVars

\* connectAck (client.py:171-175), delivered once per acknowledged socket.
ConnectAck ==
    /\ sock = "open"
    /\ ackPending
    /\ ackPending' = FALSE
    /\ connected' = TRUE
    /\ UNCHANGED <<auto_reconnect, old_auto_reconnect, sock, notif, lastClose,
                   userPc, loops, backoff, attempts, opensLeft, drops,
                   reconnects, userResult, shutdown>>
    /\ UNCHANGED nonSessVars

\* The environment drops the open socket.
TransportDrop ==
    /\ sock = "open"
    /\ drops < MaxDrops
    /\ sock' = "closed"
    /\ ackPending' = FALSE
    /\ notif' = notif \cup {"unexpected"}
    /\ lastClose' = "unexpected"
    /\ drops' = drops + 1
    /\ UNCHANGED <<connected, auto_reconnect, old_auto_reconnect, userPc,
                   loops, backoff, attempts, opensLeft, reconnects,
                   userResult, shutdown>>
    /\ UNCHANGED nonSessVars

\* What both reconnect paths do after a closure (client.py:145-151 and
\* 180-187): clear self.connected and, with auto_reconnect, start the backoff.
AfterClosure(cause) ==
    /\ connected' = FALSE
    /\ backoff' = IF auto_reconnect
                  THEN [backoff EXCEPT ![cause] = @ + 1]
                  ELSE backoff

\* connectionClosed (client.py:177-187), delivered for a closure of cause c,
\* up to the backoff sleep.
ConnectionClosed(c) ==
    /\ c \in notif
    /\ notif' = notif \ {c}
    /\ AfterClosure(c)
    /\ UNCHANGED <<auto_reconnect, old_auto_reconnect, sock, ackPending,
                   lastClose, userPc, loops, attempts, opensLeft, drops,
                   reconnects, userResult, shutdown>>
    /\ UNCHANGED nonSessVars

\* _run_client (client.py:139-142): run() returns once the socket is closed.
RunReturns ==
    /\ loops > 0
    /\ sock = "closed"
    /\ loops' = loops - 1
    /\ UNCHANGED <<connected, auto_reconnect, old_auto_reconnect, sock,
                   ackPending, notif, lastClose, userPc, backoff, attempts,
                   opensLeft, drops, reconnects, userResult, shutdown>>
    /\ UNCHANGED nonSessVars

\* _run_client (client.py:143-151): run() raises after an unexpected closure,
\* up to the backoff sleep.
RunRaises ==
    /\ loops > 0
    /\ sock = "closed"
    /\ lastClose = "unexpected"
    /\ loops' = loops - 1
    /\ AfterClosure("unexpected")
    /\ UNCHANGED <<auto_reconnect, old_auto_reconnect, sock, ackPending, notif,
                   lastClose, userPc, attempts, opensLeft, drops,
                   reconnects, userResult, shutdown>>
    /\ UNCHANGED nonSessVars

\* The backoff sleep of a reconnect path ends and it calls connect_and_run
\* (client.py:150-151, 186-187).
BackoffDone(c) ==
    /\ backoff[c] > 0
    /\ backoff' = [backoff EXCEPT ![c] = @ - 1]
    /\ ConnectAndRunEnter(c)
    /\ UNCHANGED <<connected, auto_reconnect, old_auto_reconnect, notif,
                   lastClose, userPc, drops>>
    /\ UNCHANGED nonSessVars

\* disconnect_and_stop (client.py:155-157): auto_reconnect is saved and cleared.
DasBegin ==
    /\ userPc = "idle"
    /\ old_auto_reconnect' = auto_reconnect
    /\ auto_reconnect' = FALSE
    /\ userPc' = "das_close"
    /\ userResult' = "pending"
    /\ UNCHANGED <<connected, sock, ackPending, notif, lastClose, loops,
                   backoff, attempts, opensLeft, drops, reconnects,
                   shutdown>>
    /\ UNCHANGED nonSessVars

\* disconnect_and_stop (client.py:159-161): a connected client is disconnected.
DasClose ==
    /\ userPc = "das_close"
    /\ IF connected
       THEN /\ TransportClose("deliberate")
            /\ connected' = FALSE
            /\ shutdown' = TRUE
       ELSE UNCHANGED <<sock, ackPending, notif, lastClose, connected,
                        shutdown>>
    /\ userPc' = "das_join"
    /\ UNCHANGED <<auto_reconnect, old_auto_reconnect, loops, backoff,
                   attempts, opensLeft, drops, reconnects, userResult>>
    /\ UNCHANGED nonSessVars

\* disconnect_and_stop (client.py:163-168): the bounded join returns and
\* auto_reconnect is restored.
DasEnd ==
    /\ userPc = "das_join"
    /\ auto_reconnect' = old_auto_reconnect
    /\ userPc' = "idle"
    /\ userResult' = "stopped"
    /\ UNCHANGED <<connected, old_auto_reconnect, sock, ackPending, notif,
                   lastClose, loops, backoff, attempts, opensLeft, drops,
                   reconnects, shutdown>>
    /\ UNCHANGED nonSessVars

\* The session without faults: connect, acknowledge, deliberate disconnect.
SessionBasic ==
    \/ UserConnect
    \/ \E c \in Callers : CarConnected(c)
    \/ \E c \in Callers : CarTimeout(c)
    \/ ConnectAck
    \/ \E c \in Causes : ConnectionClosed(c)
    \/ RunReturns
    \/ DasBegin
    \/ DasClose
    \/ DasEnd

\* Unexpected closures and the reconnect paths.
SessionFaults ==
    \/ TransportDrop
    \/ RunRaises
    \/ \E c \in Causes : BackoffDone(c)

(***************************************************************************)
(* Request ids and response tracking (client.py).                          *)
(***************************************************************************)
RequestInit ==
    /\ req_id = 0
    /\ issuedMax = 0
    /\ reissued = FALSE
    /\ unsolicited = FALSE
    /\ responses = EmptyMap
    /\ response_events = EmptyMap
    /\ evFlag = <<>>
    /\ market_data = EmptyMap
    /\ historical_data = EmptyMap
    /\ tick_callbacks = {}
    /\ bar_callbacks = {}
    /\ quotesLockless = {}
    /\ opResult = "none"
    /\ wpc = [w \in Waiters |-> "idle"]
    /\ wid = [w \in Waiters |-> 0]
    /\ wev = [w \in Waiters |-> 0]
    /\ wres = [w \in Waiters |-> <<>>]
    /\ wgot = [w \in Waiters |-> FALSE]
    /\ wout = [w \in Waiters |-> "none"]

OrdersInit ==
    /\ orders = EmptyMap
    /\ order_status_callbacks = {}
    /\ execution_callbacks = {}
    /\ executions = EmptyMap
    /\ execObjs = <<>>
    /\ execLists = <<>>
    /\ snapshot = <<>>
    /\ reported = {}
    /\ statusRepeat = FALSE
    /\ orders_lock = "free"
    /\ handler = <<>>
    /\ deliveryThread = "running"
    /\ loggedErrors = {}
    /\ ordersLockless = {}
    /\ lastStatusCb = EmptyMap

waiterVars == <<wpc, wid, wev, wres, wgot, wout>>
feedVars == <<market_data, historical_data, tick_callbacks, bar_callbacks,
              quotesLockless>>
responseVars == <<responses, response_events, evFlag>>
idVars == <<req_id, issuedMax, reissued, unsolicited>>

\* What a callback for id leaves in the history when the map it looks in
\* holds no entry for id.
Delivered(id, registry) ==
    unsolicited' = IF id \in DOMAIN registry THEN unsolicited ELSE ~unsolicited

\* get_next_req_id (client.py:101-105); the id returned is req_id'.
TakeReqId ==
    /\ req_id < MaxReqId
    /\ req_id' = req_id + 1
    /\ reissued' = (reissued \/ req_id + 1 <= issuedMax)
    /\ issuedMax' = IF req_id + 1 > issuedMax THEN req_id + 1 ELSE issuedMax
    /\ UNCHANGED unsolicited

\* A caller outside the client calls get_next_req_id.
GetNextReqId ==
    /\ TakeReqId
    /\ opResult' = "id"
    /\ UNCHANGED <<responseVars, feedVars, waiterVars, ordVars, sessVars, storeVars, toolVars>>

\* nextValidId (client.py:194-199).
NextValidId(order_id) ==
    /\ req_id' = order_id
    /\ UNCHANGED <<issuedMax, reissued, unsolicited, opResult, responseVars, feedVars,
                   waiterVars, ordVars, sessVars, storeVars, toolVars>>

\* place_market_order (client.py:222-259).
PlaceMarketOrder(quantity, action) ==
    /\ IF ~connected
       THEN /\ opResult' = "NotConnected"
            /\ UNCHANGED idVars
       ELSE IF quantity <= 0 \/ action \notin {"BUY", "SELL"}
       THEN /\ opResult' = "ValueError"
            /\ UNCHANGED idVars
       ELSE /\ TakeReqId
            /\ opResult' = "ok"
    /\ UNCHANGED <<responseVars, feedVars, waiterVars, ordVars, sessVars, storeVars, toolVars>>

\* request_account_summary (client.py:262-286); sendOk: reqAccountSummary
\* does not raise.
RequestAccountSummary(sendOk) ==
    /\ IF ~connected
       THEN /\ opResult' = "NotConnected"
            /\ UNCHANGED <<idVars, responseVars>>
       ELSE /\ TakeReqId
            /\ Len(evFlag) < MaxEvents
            /\ evFlag' = Append(evFlag, FALSE)
            /\ IF sendOk
               THEN /\ responses' = Put(responses, req_id', <<>>)
                    /\ response_events' =
                           Put(response_events, req_id', Len(evFlag) + 1)
                    /\ opResult' = "ok"
               ELSE /\ responses' = Drop(responses, req_id')
                    /\ response_events' = Drop(response_events, req_id')
                    /\ opResult' = "SendError"
    /\ UNCHANGED <<feedVars, waiterVars, ordVars, sessVars, storeVars, toolVars>>

\* accountSummary (client.py:288-300).
AccountSummary(id, row) ==
    /\ Delivered(id, responses)
    /\ id \in DOMAIN responses => Len(responses[id]) < MaxRows
    /\ responses' = IF id \in DOMAIN responses
                    THEN [responses EXCEPT ![id] = Append(@, row)]
                    ELSE responses
    /\ UNCHANGED <<req_id, issuedMax, reissued, response_events, evFlag, opResult, feedVars,
                   waiterVars, ordVars, sessVars, storeVars, toolVars>>

\* accountSummaryEnd (client.py:302-309).
AccountSummaryEnd(id) ==
    /\ Delivered(id, response_events)
    /\ evFlag' = IF id \in DOMAIN response_events
                 THEN [evFlag EXCEPT ![response_events[id]] = TRUE]
                 ELSE evFlag
    /\ UNCHANGED <<req_id, issuedMax, reissued, responses, response_events, opResult, feedVars,
                   waiterVars, ordVars, sessVars, storeVars, toolVars>>

\* get_account_summary_result (client.py:325-326): the membership test.
GasrCheck(w, id) ==
    /\ wpc[w] = "idle"
    /\ wid' = [wid EXCEPT ![w] = id]
    /\ IF id \notin DOMAIN response_events
       THEN /\ wout' = [wout EXCEPT ![w] = "ValueError"]
            /\ wpc' = [wpc EXCEPT ![w] = "done"]
       ELSE /\ wout' = wout
            /\ wpc' = [wpc EXCEPT ![w] = "lookup"]
    /\ UNCHANGED <<wev, wres, wgot, idVars, responseVars, opResult, feedVars,
                   ordVars, sessVars, storeVars, toolVars>>

\* get_account_summary_result (client.py:329): self.response_events[req_id].
GasrLookup(w) ==
    /\ wpc[w] = "lookup"
    /\ IF wid[w] \in DOMAIN response_events
       THEN /\ wev' = [wev EXCEPT ![w] = response_events[wid[w]]]
            /\ wpc' = [wpc EXCEPT ![w] = "wait"]
            /\ wout' = wout
       ELSE /\ wev' = wev
            /\ wpc' = [wpc EXCEPT ![w] = "done"]
            /\ wout' = [wout EXCEPT ![w] = "KeyError"]
    /\ UNCHANGED <<wid, wres, wgot, idVars, responseVars, opResult, feedVars,
                   ordVars, sessVars, storeVars, toolVars>>

\* get_account_summary_result (client.py:329): wait() returns True.
GasrWake(w) ==
    /\ wpc[w] = "wait"
    /\ evFlag[wev[w]]
    /\ wpc' = [wpc EXCEPT ![w] = "pop_responses"]
    /\ UNCHANGED <<wid, wev, wres, wgot, wout, idVars, responseVars, opResult,
                   feedVars, ordVars, sessVars, storeVars, toolVars>>

\* get_account_summary_result (client.py:329-333): wait() times out.
GasrTimeout(w) ==
    /\ wpc[w] = "wait"
    /\ ~evFlag[wev[w]]
    /\ wres' = [wres EXCEPT ![w] = <<>>]
    /\ wout' = [wout EXCEPT ![w] = "Timeout"]
    /\ wpc' = [wpc EXCEPT ![w] = "done"]
    /\ UNCHANGED <<wid, wev, wgot, idVars, responseVars, opResult, feedVars,
                   ordVars, sessVars, storeVars, toolVars>>

\* get_account_summary_result (client.py:336): self.responses.pop(req_id, []).
GasrPopResponses(w) ==
    /\ wpc[w] = "pop_responses"
    /\ wres' = [wres EXCEPT ![w] = IF wid[w] \in DOMAIN responses
                                   THEN responses[wid[w]] ELSE <<>>]
    /\ wgot' = [wgot EXCEPT ![w] = wid[w] \in DOMAIN responses]
    /\ responses' = Drop(responses, wid[w])
    /\ wpc' = [wpc EXCEPT ![w] = "pop_event"]
    /\ UNCHANGED <<wid, wev, wout, idVars, response_events, evFlag, opResult,
                   feedVars, ordVars, sessVars, storeVars, toolVars>>

\* get_account_summary_result (client.py:337-339):
\* self.response_events.pop(req_id), then return.
GasrPopEvent(w) ==
    /\ wpc[w] = "pop_event"
    /\ wout' = [wout EXCEPT ![w] = IF wid[w] \in DOMAIN response_events
                                   THEN "Returned" ELSE "KeyError"]
    /\ response_events' = Drop(response_events, wid[w])
    /\ wpc' = [wpc EXCEPT ![w] = "done"]
    /\ UNCHANGED <<wid, wev, wres, wgot, idVars, responses, evFlag, opResult,
                   feedVars, ordVars, sessVars, storeVars, toolVars>>

(***************************************************************************)
(* Request-issuing operations of the data feed and the order manager.      *)
(***************************************************************************)
NewQuote ==
    [symbol |-> "AAPL", last_price |-> "None", bid |-> "None", ask |-> "None",
     volume |-> "None", last_timestamp |-> "None", raw_ticks |-> <<>>]

NewHistory == [symbol |-> "AAPL", bars |-> <<>>, completed |-> FALSE]

\* The record place_order stores; its executions field refers to the list
\* object the dict literal creates.
NewOrder(quantity) ==
    [contract |-> "contract", order |-> quantity, status |-> "Created",
     filled_quantity |-> 0, avg_fill_price |-> 0,
     remaining_quantity |-> quantity, is_complete |-> FALSE,
     executions |-> Len(execLists) + 1]

\* request_market_data (data_feed.py:45-92).
RequestMarketData(callback) ==
    /\ IF ~connected
       THEN /\ opResult' = "NotConnected"
            /\ UNCHANGED <<idVars, market_data, tick_callbacks,
                           quotesLockless>>
       ELSE /\ TakeReqId
            /\ market_data' = Put(market_data, req_id', NewQuote)
            /\ quotesLockless' = quotesLockless \cup {"request_market_data"}
            /\ tick_callbacks' = IF callback
                                 THEN tick_callbacks \cup {req_id'}
                                 ELSE tick_callbacks
            /\ opResult' = "ok"
    /\ UNCHANGED <<historical_data, bar_callbacks, responseVars, waiterVars,
                   ordVars, sessVars, storeVars, toolVars>>

\* request_historical_data (data_feed.py:113-171).
RequestHistoricalData(callback) ==
    /\ IF ~connected
       THEN /\ opResult' = "NotConnected"
            /\ UNCHANGED <<idVars, historical_data, bar_callbacks>>
       ELSE /\ TakeReqId
            /\ historical_data' = Put(historical_data, req_id', NewHistory)
            /\ bar_callbacks' = IF callback
                                THEN bar_callbacks \cup {req_id'}
                                ELSE bar_callbacks
            /\ opResult' = "ok"
    /\ UNCHANGED <<market_data, tick_callbacks, quotesLockless, responseVars,
                   waiterVars, ordVars, sessVars, storeVars, toolVars>>

\* place_order with the order id taken before the connection is checked.
PlaceOrderIdFirst(quantity, status_callback, execution_callback) ==
    /\ connected => orders_lock = "free"
    /\ TakeReqId
    /\ IF ~connected
       THEN /\ opResult' = "NotConnected"
            /\ UNCHANGED <<orders, order_status_callbacks,
                           execution_callbacks, execLists, lastStatusCb>>
       ELSE /\ orders' = Put(orders, req_id', NewOrder(quantity))
            /\ execLists' = Append(execLists, <<>>)
            /\ lastStatusCb' = Drop(lastStatusCb, req_id')
            /\ order_status_callbacks' =
                   IF status_callback
                   THEN order_status_callbacks \cup {req_id'}
                   ELSE order_status_callbacks
            /\ execution_callbacks' =
                   IF execution_callback
                   THEN execution_callbacks \cup {req_id'}
                   ELSE execution_callbacks
            /\ opResult' = "ok"
    /\ UNCHANGED <<executions, execObjs, snapshot, reported, statusRepeat,
                   orders_lock, handler, deliveryThread, loggedErrors,
                   ordersLockless, responseVars, feedVars, waiterVars,
                   sessVars, storeVars, toolVars>>

\* place_order (order_manager.py:65-112).
PlaceOrder(quantity, status_callback, execution_callback) ==
    /\ connected => orders_lock = "free"
    /\ IF ~connected
       THEN /\ opResult' = "NotConnected"
            /\ UNCHANGED <<idVars, orders, order_status_callbacks,
                           execution_callbacks, execLists, lastStatusCb>>
       ELSE /\ TakeReqId
            /\ orders' = Put(orders, req_id', NewOrder(quantity))
            /\ execLists' = Append(execLists, <<>>)
            /\ lastStatusCb' = Drop(lastStatusCb, req_id')
            /\ order_status_callbacks' =
                   IF status_callback
                   THEN order_status_callbacks \cup {req_id'}
                   ELSE order_status_callbacks
            /\ execution_callbacks' =
                   IF execution_callback
                   THEN execution_callbacks \cup {req_id'}
                   ELSE execution_callbacks
            /\ opResult' = "ok"
    /\ UNCHANGED <<executions, execObjs, snapshot, reported, statusRepeat,
                   orders_lock, handler, deliveryThread, loggedErrors,
                   ordersLockless, responseVars, feedVars, waiterVars,
                   sessVars, storeVars, toolVars>>

(***************************************************************************)
(* Order tracking callbacks (order_manager.py).                            *)
(***************************************************************************)
\* The statuses that set is_complete (order_manager.py:341, 352).
CompleteStatuses == {"Filled", "Cancelled", "ApiCancelled"}

\* The delivery thread is between callbacks: the transport's message loop
\* delivers one callback at a time.
DeliveryFree == deliveryThread = "running" /\ handler = <<>>

\* The delivery thread after a callback has updated its state: in the
\* handler registered for the id, if there is one.
StartHandler(registered, kind, id, input) ==
    IF registered
    THEN <<[kind |-> kind, id |-> id, input |-> input, queried |-> FALSE]>>
    ELSE <<>>

\* A handler called while the callback still holds orders_lock.
InvokeHandlerUnderLock(registered, kind, id, input) ==
    /\ orders_lock' = IF registered THEN "delivery" ELSE "free"
    /\ handler' = StartHandler(registered, kind, id, input)

\* The end of a callback (order_manager.py:355-363, 398-409): the with-block
\* has released orders_lock, and a handler registered for the id is called
\* with the copies made under the lock.
InvokeHandler(registered, kind, id, input) ==
    /\ orders_lock' = "free"
    /\ handler' = StartHandler(registered, kind, id, input)

\* The arguments of an orderStatus callback that lastStatusCb keeps.
StatusArgs(status, filled, remaining, avg_fill_price) ==
    [status |-> status, filled |-> filled, remaining |-> remaining,
     avg_fill_price |-> avg_fill_price]

\* orderStatus that ignores an order id it does not track.
OrderStatusDropUnknown(order_id, status, filled, remaining, avg_fill_price) ==
    /\ DeliveryFree
    /\ orders_lock = "free"
    /\ orders' =
         IF order_id \notin DOMAIN orders
         THEN orders
         ELSE [orders EXCEPT ![order_id] =
                  [@ EXCEPT !.status = status,
                            !.filled_quantity = filled,
                            !.avg_fill_price = avg_fill_price,
                            !.remaining_quantity = remaining,
                            !.is_complete = status \in CompleteStatuses]]
    /\ lastStatusCb' = Put(lastStatusCb, order_id,
                           StatusArgs(status, filled, remaining,
                                      avg_fill_price))
    /\ InvokeHandler(order_id \in order_status_callbacks, "status", order_id,
                     <<status, filled, remaining, avg_fill_price>>)
    /\ UNCHANGED <<order_status_callbacks, execution_callbacks, executions,
                   execObjs, execLists, snapshot, reported, statusRepeat,
                   deliveryThread,
                   loggedErrors, ordersLockless, reqVars, sessVars, storeVars, toolVars>>

\* orderStatus that adds the reported fill to the quantity already stored.
OrderStatusAddsFill(order_id, status, filled, remaining, avg_fill_price) ==
    /\ DeliveryFree
    /\ orders_lock = "free"
    /\ orders' =
         IF order_id \notin DOMAIN orders
         THEN Put(orders, order_id,
                  [contract |-> "None", order |-> "None", status |-> status,
                   filled_quantity |-> filled,
                   avg_fill_price |-> avg_fill_price,
                   remaining_quantity |-> remaining,
                   is_complete |-> status \in CompleteStatuses,
                   executions |-> Len(execLists) + 1])
         ELSE [orders EXCEPT ![order_id] =
                  [@ EXCEPT !.status = status,
                            !.filled_quantity = @ + filled,
                            !.avg_fill_price = avg_fill_price,
                            !.remaining_quantity = remaining,
                            !.is_complete = status \in CompleteStatuses]]
    /\ execLists' = IF order_id \notin DOMAIN orders
                    THEN Append(execLists, <<>>)
                    ELSE execLists
    /\ lastStatusCb' = Put(lastStatusCb, order_id,
                           StatusArgs(status, filled, remaining,
                                      avg_fill_price))
    /\ InvokeHandler(order_id \in order_status_callbacks, "status", order_id,
                     <<status, filled, remaining, avg_fill_price>>)
    /\ UNCHANGED <<order_status_callbacks, execution_callbacks, executions,
                   execObjs, snapshot, deliveryThread, loggedErrors,
                   ordersLockless, reqVars, sessVars, storeVars, toolVars>>

\* orderStatus (order_manager.py:311-363).  Under orders_lock a record is
\* created for an id that is not tracked, with a list of executions of its
\* own, or the tracked record is updated; a registered status handler is
\* then called with a copy of the record.
OrderStatusCallback(order_id, status, filled, remaining, avg_fill_price) ==
    /\ DeliveryFree
    /\ orders_lock = "free"
    /\ orders' =
         IF order_id \notin DOMAIN orders
         THEN Put(orders, order_id,
                  [contract |-> "None", order |-> "None", status |-> status,
                   filled_quantity |-> filled,
                   avg_fill_price |-> avg_fill_price,
                   remaining_quantity |-> remaining,
                   is_complete |-> status \in CompleteStatuses,
                   executions |-> Len(execLists) + 1])
         ELSE [orders EXCEPT ![order_id] =
                  [@ EXCEPT !.status = status,
                            !.filled_quantity = filled,
                            !.avg_fill_price = avg_fill_price,
                            !.remaining_quantity = remaining,
                            !.is_complete = status \in CompleteStatuses]]
    /\ execLists' = IF order_id \notin DOMAIN orders
                    THEN Append(execLists, <<>>)
                    ELSE execLists
    /\ lastStatusCb' = Put(lastStatusCb, order_id,
                           StatusArgs(status, filled, remaining,
                                      avg_fill_price))
    /\ InvokeHandler(order_id \in order_status_callbacks, "status", order_id,
                     <<status, filled, remaining, avg_fill_price>>)
    /\ UNCHANGED <<order_status_callbacks, execution_callbacks, executions,
                   execObjs, snapshot, deliveryThread, loggedErrors,
                   ordersLockless, reqVars, sessVars, storeVars, toolVars>>

\* orderStatus as the gateway delivers it.
OrderStatus(order_id, status, filled, remaining, avg_fill_price) ==
    /\ OrderStatusCallback(order_id, status, filled, remaining,
                           avg_fill_price)
    /\ UNCHANGED <<statusRepeat, reported>>

\* orderStatus, noting whether its arguments are those of the callback
\* delivered before it for the same order id.
OrderStatusNoted(order_id, status, filled, remaining, avg_fill_price) ==
    /\ OrderStatusCallback(order_id, status, filled, remaining,
                           avg_fill_price)
    /\ statusRepeat' =
          /\ order_id \in DOMAIN lastStatusCb
          /\ lastStatusCb[order_id] =
                StatusArgs(status, filled, remaining, avg_fill_price)
    /\ UNCHANGED reported

\* The execution dict execDetails builds (order_manager.py:375-389).
NewExecution(order_id, exec_id) ==
    [exec_id |-> exec_id, order_id |-> order_id, shares |-> 1, price |-> 100,
     commission |-> <<>>]

\* execDetails that also adds the executed shares to the order's fill.
ExecDetailsCountsFill(order_id, exec_id) ==
    /\ DeliveryFree
    /\ orders_lock = "free"
    /\ Len(execObjs) < MaxExecObjs
    /\ execObjs' = Append(execObjs, NewExecution(order_id, exec_id))
    /\ executions' = Put(executions, exec_id, Len(execObjs) + 1)
    /\ execLists' = IF order_id \in DOMAIN orders
                    THEN [execLists EXCEPT ![orders[order_id].executions] =
                             Append(@, Len(execObjs) + 1)]
                    ELSE execLists
    /\ orders' = IF order_id \in DOMAIN orders
                 THEN [orders EXCEPT ![order_id].filled_quantity = @ + 1]
                 ELSE orders
    /\ InvokeHandler(order_id \in execution_callbacks, "execution", order_id,
                     <<exec_id>>)
    /\ UNCHANGED <<order_status_callbacks, execution_callbacks, snapshot,
                   reported, statusRepeat, deliveryThread, loggedErrors,
                   ordersLockless, lastStatusCb, reqVars, sessVars, storeVars, toolVars>>

\* execDetails (order_manager.py:365-409) while fewer than maxObjs execution
\* dicts exist.  Under orders_lock the new dict is stored under its exec id,
\* replacing what was stored there, and appended to the executions list of
\* a tracked order; a registered execution handler is then called.
ExecDetailsWithin(order_id, exec_id, maxObjs) ==
    /\ DeliveryFree
    /\ orders_lock = "free"
    /\ Len(execObjs) < maxObjs
    /\ execObjs' = Append(execObjs, NewExecution(order_id, exec_id))
    /\ executions' = Put(executions, exec_id, Len(execObjs) + 1)
    /\ execLists' = IF order_id \in DOMAIN orders
                    THEN [execLists EXCEPT ![orders[order_id].executions] =
                             Append(@, Len(execObjs) + 1)]
                    ELSE execLists
    /\ InvokeHandler(order_id \in execution_callbacks, "execution", order_id,
                     <<exec_id>>)
    /\ UNCHANGED <<orders, order_status_callbacks, execution_callbacks,
                   snapshot, reported, statusRepeat, deliveryThread,
                   loggedErrors, ordersLockless, lastStatusCb, reqVars,
                   sessVars, storeVars, toolVars>>

ExecDetails(order_id, exec_id) ==
    ExecDetailsWithin(order_id, exec_id, MaxExecObjs)

\* commissionReport (order_manager.py:411-423).  The commission key of an
\* execution dict is absent (<<>>) until the report sets it; the dict is
\* written without orders_lock.
CommissionReportCallback(exec_id, commission) ==
    /\ DeliveryFree
    /\ IF exec_id \in DOMAIN executions
       THEN /\ execObjs' =
                  [execObjs EXCEPT ![executions[exec_id]].commission =
                      <<commission>>]
            /\ ordersLockless' = ordersLockless \cup {"commissionReport"}
       ELSE UNCHANGED <<execObjs, ordersLockless>>
    /\ UNCHANGED <<orders, order_status_callbacks, execution_callbacks,
                   executions, execLists, snapshot, statusRepeat,
                   orders_lock, handler, deliveryThread, loggedErrors,
                   lastStatusCb, reqVars, sessVars, storeVars, toolVars>>

\* commissionReport as the gateway delivers it.
CommissionReport(exec_id, commission) ==
    /\ CommissionReportCallback(exec_id, commission)
    /\ UNCHANGED reported

\* commissionReport, noting the execution id it was delivered for.
CommissionReportNoted(exec_id, commission) ==
    /\ CommissionReportCallback(exec_id, commission)
    /\ reported' = reported \cup {exec_id}

\* What a reader of an order dict sees: its own fields and, through its
\* executions list, the execution dicts.
Reading(rec) ==
    [rec EXCEPT !.executions =
        [i \in 1..Len(execLists[rec.executions]) |->
            execObjs[execLists[rec.executions][i]]]]

\* get_order_status (order_manager.py:139-154): ValueError for an id that
\* is not tracked, else self.orders[order_id].copy(), whose executions field
\* refers to the tracked record's list.
GetOrderStatus(order_id) ==
    /\ orders_lock = "free"
    /\ IF order_id \notin DOMAIN orders
       THEN /\ opResult' = "ValueError"
            /\ UNCHANGED snapshot
       ELSE /\ opResult' = "ok"
            /\ snapshot' = <<[rec |-> orders[order_id],
                              seen |-> Reading(orders[order_id])]>>
    /\ UNCHANGED <<orders, order_status_callbacks, execution_callbacks,
                   executions, execObjs, execLists, reported, statusRepeat,
                   orders_lock, handler, deliveryThread, loggedErrors,
                   ordersLockless, lastStatusCb, idVars, responseVars,
                   feedVars, waiterVars, sessVars, storeVars, toolVars>>

\* A handler whose exception is not caught by the callback.
HandlerRaisesUncaught ==
    /\ handler # <<>>
    /\ handler' = <<>>
    /\ deliveryThread' = "crashed"
    /\ UNCHANGED <<orders, order_status_callbacks, execution_callbacks,
                   executions, execObjs, execLists, snapshot, reported,
                   statusRepeat, orders_lock, loggedErrors, ordersLockless,
                   lastStatusCb, reqVars, sessVars, storeVars, toolVars>>

\* The handler raises: the callback's except clause logs the error and the
\* callback returns (order_manager.py:360-363, 406-409; data_feed.py:231-234,
\* 281-284).
HandlerRaises ==
    /\ handler # <<>>
    /\ handler' = <<>>
    /\ loggedErrors' = loggedErrors \cup {"Error in callback"}
    /\ UNCHANGED <<orders, order_status_callbacks, execution_callbacks,
                   executions, execObjs, execLists, snapshot, reported,
                   statusRepeat, orders_lock, deliveryThread, ordersLockless,
                   lastStatusCb, reqVars, sessVars, storeVars, toolVars>>

\* The handler returns, and with it the callback.
HandlerReturns ==
    /\ handler # <<>>
    /\ handler' = <<>>
    /\ UNCHANGED <<orders, order_status_callbacks, execution_callbacks,
                   executions, execObjs, execLists, snapshot, reported,
                   statusRepeat, orders_lock, deliveryThread, loggedErrors,
                   ordersLockless, lastStatusCb, reqVars, sessVars, storeVars, toolVars>>

\* An order handler calls get_order_status, get_open_orders or cancel_order
\* on the manager (order_manager.py:125, 149, 165): each takes orders_lock,
\* which is not reentrant, so the call goes through only while the lock is
\* free.
HandlerQueries ==
    /\ handler # <<>>
    /\ handler[1].kind \in {"status", "execution"}
    /\ ~handler[1].queried
    /\ orders_lock = "free"
    /\ handler' = <<[handler[1] EXCEPT !.queried = TRUE]>>
    /\ UNCHANGED <<orders, order_status_callbacks, execution_callbacks,
                   executions, execObjs, execLists, snapshot, reported,
                   statusRepeat, orders_lock, deliveryThread, loggedErrors,
                   ordersLockless, lastStatusCb, reqVars, sessVars, storeVars, toolVars>>

HandlerSteps ==
    \/ HandlerReturns
    \/ HandlerRaises
    \/ HandlerQueries

OrderCallbacks ==
    \/ \E o \in OrderIds : \E st \in Statuses : \E f \in Fills :
           OrderStatus(o, st, f[1], f[2], f[3])
    \/ \E o \in OrderIds : \E e \in ExecIds : ExecDetails(o, e)
    \/ \E e \in ExecIds : CommissionReport(e, 1)

(***************************************************************************)
(* Market-data and historical-data callbacks (data_feed.py).  The data    *)
(* feed has no lock: every write below is made without one.               *)
(***************************************************************************)
\* Everything of the order manager but the delivery thread's position.
orderTrackVars == <<orders, order_status_callbacks, execution_callbacks,
                    executions, execObjs, execLists, snapshot, reported,
                    statusRepeat, orders_lock, deliveryThread, loggedErrors,
                    ordersLockless, lastStatusCb>>

\* cancel_market_data (data_feed.py:94-110).
CancelMarketData(id) ==
    /\ IF ~connected
       THEN /\ opResult' = "NotConnected"
            /\ UNCHANGED <<market_data, tick_callbacks, quotesLockless>>
       ELSE /\ market_data' = Drop(market_data, id)
            /\ tick_callbacks' = tick_callbacks \ {id}
            /\ quotesLockless' = quotesLockless \cup {"cancel_market_data"}
            /\ opResult' = "ok"
    /\ UNCHANGED <<historical_data, bar_callbacks, idVars, responseVars,
                   waiterVars, ordVars, sessVars, storeVars, toolVars>>

\* tickPrice that opens a quote for an id it does not know.
TickPriceAdoptsUnknown(id, field, price) ==
    /\ Delivered(id, market_data)
    /\ DeliveryFree
    /\ id \in DOMAIN market_data => Len(market_data[id].raw_ticks) < MaxTicks
    /\ market_data' =
          [Put(market_data, id,
               IF id \in DOMAIN market_data THEN market_data[id] ELSE NewQuote)
             EXCEPT ![id] =
               [@ EXCEPT
                  !.bid = IF field = 1 THEN price ELSE @,
                  !.ask = IF field = 2 THEN price ELSE @,
                  !.last_price = IF field = 4 THEN price ELSE @,
                  !.last_timestamp = IF field = 4 THEN "now" ELSE @,
                  !.raw_ticks = Append(@, <<field, price>>)]]
    /\ quotesLockless' = quotesLockless \cup {"tickPrice"}
    /\ handler' = StartHandler(id \in tick_callbacks, "tick", id,
                               <<field, price>>)
    /\ UNCHANGED <<historical_data, tick_callbacks, bar_callbacks, opResult,
                   req_id, issuedMax, reissued, responseVars, waiterVars,
                   orderTrackVars, sessVars, storeVars, toolVars>>

\* tickPrice (data_feed.py:200-234): ignored for an id without a quote;
\* else the quote's field and its raw ticks are updated and a registered
\* tick handler is called with a copy of the quote.
TickPrice(id, field, price) ==
    /\ Delivered(id, market_data)
    /\ DeliveryFree
    /\ IF id \notin DOMAIN market_data
       THEN UNCHANGED <<market_data, quotesLockless, handler>>
       ELSE /\ Len(market_data[id].raw_ticks) < MaxTicks
            /\ market_data' =
                  [market_data EXCEPT ![id] =
                      [@ EXCEPT
                         !.bid = IF field = 1 THEN price ELSE @,
                         !.ask = IF field = 2 THEN price ELSE @,
                         !.last_price = IF field = 4 THEN price ELSE @,
                         !.last_timestamp = IF field = 4 THEN "now" ELSE @,
                         !.raw_ticks = Append(@, <<field, price>>)]]
            /\ quotesLockless' = quotesLockless \cup {"tickPrice"}
            /\ handler' = StartHandler(id \in tick_callbacks, "tick", id,
                                       <<field, price>>)
    /\ UNCHANGED <<historical_data, tick_callbacks, bar_callbacks, opResult,
                   req_id, issuedMax, reissued, responseVars, waiterVars, orderTrackVars,
                   sessVars, storeVars, toolVars>>

\* tickSize (data_feed.py:236-254): as tickPrice, for the volume; no handler
\* is called.
TickSize(id, field, size) ==
    /\ Delivered(id, market_data)
    /\ DeliveryFree
    /\ IF id \notin DOMAIN market_data
       THEN UNCHANGED <<market_data, quotesLockless>>
       ELSE /\ Len(market_data[id].raw_ticks) < MaxTicks
            /\ market_data' =
                  [market_data EXCEPT ![id] =
                      [@ EXCEPT
                         !.volume = IF field = 8 THEN size ELSE @,
                         !.raw_ticks = Append(@, <<field, size>>)]]
            /\ quotesLockless' = quotesLockless \cup {"tickSize"}
    /\ UNCHANGED <<historical_data, tick_callbacks, bar_callbacks, opResult,
                   req_id, issuedMax, reissued, responseVars, waiterVars, ordVars, sessVars, storeVars, toolVars>>

\* historicalData (data_feed.py:257-284): ignored for an id without a
\* request; else the bar is appended and a registered bar handler is called
\* with it.
HistoricalData(id, bar) ==
    /\ Delivered(id, historical_data)
    /\ DeliveryFree
    /\ IF id \notin DOMAIN historical_data
       THEN UNCHANGED <<historical_data, handler>>
       ELSE /\ Len(historical_data[id].bars) < MaxBars
            /\ historical_data' =
                  [historical_data EXCEPT ![id].bars = Append(@, bar)]
            /\ handler' = StartHandler(id \in bar_callbacks, "bar", id,
                                       <<bar>>)
    /\ UNCHANGED <<market_data, tick_callbacks, bar_callbacks, quotesLockless,
                   opResult, req_id, issuedMax, reissued, responseVars, waiterVars, orderTrackVars,
                   sessVars, storeVars, toolVars>>

\* historicalDataEnd (data_feed.py:286-294).
HistoricalDataEnd(id) ==
    /\ Delivered(id, historical_data)
    /\ DeliveryFree
    /\ historical_data' =
          IF id \in DOMAIN historical_data
          THEN [historical_data EXCEPT ![id].completed = TRUE]
          ELSE historical_data
    /\ UNCHANGED <<market_data, tick_callbacks, bar_callbacks, quotesLockless,
                   opResult, req_id, issuedMax, reissued, responseVars, waiterVars, ordVars,
                   sessVars, storeVars, toolVars>>

FeedCallbacks ==
    \/ \E id \in ReqIds : \E f \in PriceFields : TickPrice(id, f, 10)
    \/ \E id \in ReqIds : \E f \in SizeFields : TickSize(id, f, 5)
    \/ \E id \in ReqIds : HistoricalData(id, "bar")
    \/ \E id \in ReqIds : HistoricalDataEnd(id)

\* The handlers a caller of place_order registers: none or both.
(***************************************************************************)
(* The bar store (database_storage.py).  The database is PostgreSQL         *)
(* (__init__ rejects any other connection string, line 33): a statement     *)
(* that fails inside a transaction leaves the transaction aborted, and      *)
(* every later statement of it raises until the rollback.                   *)
(***************************************************************************)
\* After DataHarvester.__init__ (database_storage.py:24-52): the attributes
\* it and _create_tables assign, and empty tables.  The data_feed argument
\* is not assigned to any attribute.
StoreInit ==
    /\ harvesterAttrs = {"engine", "metadata", "price_data", "symbols_meta",
                         "harvest_log", "_lock"}
    /\ price_data = <<>>
    /\ symbols_meta = EmptyMap
    /\ harvest_log = <<>>
    /\ harvests = <<>>

\* A bar dict of the vendor, a function on its keys.  The value None is
\* <<>>, a number v is <<v>>.
Bar(date, price) ==
    [date |-> date, open |-> <<price>>, high |-> <<price>>,
     low |-> <<price>>, close |-> <<price>>, volume |-> <<0>>]

\* The timestamps of a vendor response of n bars from start on, one
\* nominal spacing apart; for dup > 0 the bar at position dup carries the
\* timestamp of the bar before it.
Dates(start, n, dup) ==
    [i \in 1..n |-> start + i - 1 - (IF dup > 1 /\ i >= dup THEN 1 ELSE 0)]

\* A vendor response: bars at the timestamps dates, of which the bars at
\* the positions in lacking have no 'open'.
Response(dates, price, lacking) ==
    [i \in 1..Len(dates) |->
        IF i \in lacking
        THEN [Bar(dates[i], price) EXCEPT !.open = <<>>]
        ELSE Bar(dates[i], price)]

Responses ==
    {Response(Dates(start, n, dup), price, lacking) :
        start \in 1..MaxStart, n \in 1..MaxResponse, dup \in 0..MaxResponse,
        price \in Prices, lacking \in SUBSET (1..MaxResponse)}

\* bar.get(key, default) (database_storage.py:428-444): the default only
\* for a key the dict does not have.
Get(bar, key, default) ==
    IF key \in DOMAIN bar THEN bar[key] ELSE <<default>>

OHLC == {"open", "high", "low", "close"}

\* float(bar['open']), float(bar['high']), float(bar['low']) and
\* float(bar['close']) all succeed (database_storage.py:274-277): none of
\* the keys is missing and none of the values is None.
HasOHLC(bar) == \A key \in OHLC : key \in DOMAIN bar /\ bar[key] # <<>>

Max2(a, b) == IF a >= b THEN a ELSE b
Min2(a, b) == IF a <= b THEN a ELSE b

\* _calculate_data_quality raises TypeError (database_storage.py:432-444):
\* the comparisons high <= 0, low <= 0 and high < low, and max and min of
\* open and close, raise when an operand is None.
QualityRaises(bar) == \E key \in OHLC : Get(bar, key, 0) = <<>>

\* What _calculate_data_quality returns when it does not raise
\* (database_storage.py:422-446), in tenths.
CalculateDataQuality(bar) ==
    LET open == Get(bar, "open", 0)[1]
        high == Get(bar, "high", 0)[1]
        low == Get(bar, "low", 0)[1]
        close == Get(bar, "close", 0)[1]
        quality ==
            10 - (IF ~HasOHLC(bar) THEN 3 ELSE 0)
               - (IF high <= 0 \/ low <= 0 THEN 3 ELSE 0)
               - (IF high < low THEN 5 ELSE 0)
               - (IF high < Max2(open, close) THEN 2 ELSE 0)
               - (IF low > Min2(open, close) THEN 2 ELSE 0)
    IN  Max2(0, quality)

\* The columns of the unique constraint uix_price_data
\* (database_storage.py:77).
BarKey(symbol, bar) == <<symbol, "1 day", bar.date, "TRADES">>

\* bar_values (database_storage.py:270-283).
BarValues(symbol, bar) ==
    [key |-> BarKey(symbol, bar),
     open |-> bar.open[1], high |-> bar.high[1], low |-> bar.low[1],
     close |-> bar.close[1], volume |-> Get(bar, "volume", 0)[1],
     data_quality |-> CalculateDataQuality(bar)]

KeyIn(rows, key) == \E i \in 1..Len(rows) : rows[i].key = key

\* The row with the key after the UPDATE of database_storage.py:294-305,
\* which leaves the key columns as they are.
UpdateRow(rows, values) ==
    [i \in 1..Len(rows) |->
        IF rows[i].key = values.key THEN values ELSE rows[i]]

\* The transaction _store_bars opens (database_storage.py:228-229) on the
\* tables, and the statistics at their start values (210-216).  aborted: a
\* statement of the transaction has failed; raised: an exception has left
\* the try block of line 231.
BeginStore(rows, meta) ==
    [rows |-> rows, meta |-> meta, aborted |-> FALSE, raised |-> FALSE,
     processed |-> 0, added |-> 0, updated |-> 0, errors |-> 0]

\* The symbols_meta upsert (database_storage.py:239-257).  The INSERT
\* fails for a symbol that has a row, which aborts the transaction; the
\* UPDATE in the bare except is then a statement on an aborted transaction
\* and its exception leaves the try block.
UpsertSymbol(tx, symbol) ==
    LET conflict == [tx EXCEPT !.aborted = TRUE]
    IN  IF symbol \notin DOMAIN tx.meta
        THEN [tx EXCEPT !.meta = Put(@, symbol, [first_date |-> <<>>,
                                                 update_count |-> 1])]
        ELSE IF conflict.aborted
        THEN [conflict EXCEPT !.raised = TRUE]
        ELSE [conflict EXCEPT !.meta[symbol].update_count = @ + 1]

\* One iteration of the loop over the bars (database_storage.py:261-312).
\* A bar without an OHLC value raises before any statement is sent.  The
\* INSERT raises on an aborted transaction; on a live one it raises
\* IntegrityError for a key that has a row, which aborts the transaction,
\* and the UPDATE in the handler is then a statement on an aborted
\* transaction.
StoreBar(tx, symbol, bar) ==
    LET counted == [tx EXCEPT !.processed = @ + 1]
        values == BarValues(symbol, bar)
        conflict == [counted EXCEPT !.aborted = TRUE]
    IN  IF ~HasOHLC(bar)
        THEN [counted EXCEPT !.errors = @ + 1]
        ELSE IF counted.aborted
        THEN [counted EXCEPT !.errors = @ + 1]
        ELSE IF ~KeyIn(counted.rows, values.key)
        THEN [counted EXCEPT !.rows = Append(@, values), !.added = @ + 1]
        ELSE IF conflict.aborted
        THEN [conflict EXCEPT !.errors = @ + 1]
        ELSE [conflict EXCEPT !.rows = UpdateRow(@, values),
                              !.updated = @ + 1]

RECURSIVE StoreEach(_, _, _)
StoreEach(tx, symbol, bars) ==
    IF bars = <<>>
    THEN tx
    ELSE StoreEach(StoreBar(tx, symbol, Head(bars)), symbol, Tail(bars))

\* min([self._parse_bar_timestamp(bar) for bar in bars])
\* (database_storage.py:317), for bars whose date is a timestamp.
OldestTimestamp(bars) ==
    CHOOSE d \in {bars[i].date : i \in 1..Len(bars)} :
        \A i \in 1..Len(bars) : d <= bars[i].date

\* _store_bars that leaves first_date as it is.
KeepFirstDate(tx, symbol, bars) == tx

\* The first_date update (database_storage.py:314-330): the UPDATE raises
\* on an aborted transaction, which is logged; else it sets first_date
\* where that is NULL or later than the oldest timestamp of the batch.
UpdateFirstDate(tx, symbol, bars) ==
    LET new_date == OldestTimestamp(bars)
        first_date == tx.meta[symbol].first_date
    IN  IF tx.aborted
        THEN tx
        ELSE IF first_date = <<>> \/ first_date[1] > new_date
        THEN [tx EXCEPT !.meta[symbol].first_date = <<new_date>>]
        ELSE tx

\* The final UPDATE of the harvest_log row (database_storage.py:333-344)
\* raises on an aborted transaction.
UpdateLog(tx) == [tx EXCEPT !.raised = tx.aborted]

\* The try block of _store_bars (database_storage.py:231-344) up to the
\* commit.
StoreBatch(rows, meta, symbol, bars) ==
    LET upserted == UpsertSymbol(BeginStore(rows, meta), symbol)
    IN  IF upserted.raised
        THEN upserted
        ELSE UpdateLog(UpdateFirstDate(StoreEach(upserted, symbol, bars),
                                       symbol, bars))

\* The stats dict _store_bars returns.
Stats(status, tx) ==
    [status |-> status, processed |-> <<tx.processed>>,
     added |-> <<tx.added>>, updated |-> <<tx.updated>>,
     errors |-> <<tx.errors>>, error |-> <<>>]

\* _store_bars (database_storage.py:191-378), run under self._lock from
\* its first statement to its return: the tables and the log after it, and
\* the dict it returns.  When an exception leaves the try block, the
\* transaction is rolled back, and with it the harvest_log row inserted at
\* line 236, so that the UPDATE of lines 359-367 finds no row; the dict's
\* status is "failed".  Otherwise the log row gets "success" or "partial"
\* and the transaction commits; the dict's status is "success".
StoreBarsOutcome(rows, meta, log, symbol, bars) ==
    LET tx == StoreBatch(rows, meta, symbol, bars)
    IN  IF bars = <<>>
        THEN [rows |-> rows, meta |-> meta, log |-> log,
              stats |-> Stats("empty", BeginStore(rows, meta))]
        ELSE IF tx.raised
        THEN [rows |-> rows, meta |-> meta, log |-> log,
              stats |-> Stats("failed", tx)]
        ELSE [rows |-> tx.rows, meta |-> tx.meta,
              log |-> Append(log, IF tx.errors = 0 THEN "success"
                                                   ELSE "partial"),
              stats |-> Stats("success", tx)]

\* The dict harvest_data returns from its except clause
\* (database_storage.py:187-189), and the one for an empty response
\* (177-179): neither has the counters.
Failure(status, error) ==
    [status |-> status, processed |-> <<>>, added |-> <<>>,
     updated |-> <<>>, errors |-> <<>>, error |-> error]

\* The end of a call that leaves the tables as in out and returns
\* out.stats.
Harvested(entry, symbol, bars, out) ==
    /\ price_data' = out.rows
    /\ symbols_meta' = out.meta
    /\ harvest_log' = out.log
    /\ harvests' = Append(harvests,
                          [entry |-> entry, symbol |-> symbol,
                           bars |-> bars, before |-> price_data,
                           after |-> out.rows, meta |-> symbols_meta,
                           metaAfter |-> out.meta, log |-> harvest_log,
                           logAfter |-> out.log, result |-> out.stats])
    /\ UNCHANGED <<harvesterAttrs, sessVars, reqVars, ordVars, toolVars>>

\* _store_bars called with bars, as import_from_csv does
\* (database_storage.py:1117).
StoreBars(symbol, bars) ==
    /\ Len(harvests) < MaxHarvests
    /\ Harvested("_store_bars", symbol, bars,
                 StoreBarsOutcome(price_data, symbols_meta, harvest_log,
                                  symbol, bars))

\* harvest_data (database_storage.py:146-189) when the vendor would answer
\* the request with bars.  Reading self.data_feed (line 167) raises
\* AttributeError on a harvester that has no such attribute; the except
\* clause returns the failure dict.
HarvestData(symbol, bars) ==
    /\ Len(harvests) < MaxHarvests
    /\ Harvested("harvest_data", symbol, bars,
                 IF "data_feed" \notin harvesterAttrs
                 THEN [rows |-> price_data, meta |-> symbols_meta,
                       log |-> harvest_log,
                       stats |-> Failure("failed", <<"AttributeError">>)]
                 ELSE IF bars = <<>>
                 THEN [rows |-> price_data, meta |-> symbols_meta,
                       log |-> harvest_log,
                       stats |-> Failure("no_data", <<>>)]
                 ELSE StoreBarsOutcome(price_data, symbols_meta,
                                       harvest_log, symbol, bars))

(***************************************************************************)
(* harvest_multiple_symbols (database_storage.py:527-643).  What a         *)
(* harvest_data call does is drawn from Outcomes: the status of the dict   *)
(* it returns, or "raises" for an exception.                               *)
(***************************************************************************)
Outcomes == {"success", "failed", "raises"}

\* The call of harvest_multiple_symbols(symbols, timeframes, max_parallel):
\* the results dict of lines 547-552 and 602-607, and no symbol started.
MultiInit(nSymbols, nTimeframes, parallel) ==
    /\ symbols = nSymbols
    /\ timeframes = nTimeframes
    /\ max_parallel = parallel
    /\ work = [i \in 1..symbols |->
                  [state |-> "queued", symbol_results |-> <<>>,
                   success |-> TRUE, attempted |-> <<>>]]
    /\ results = [total_symbols |-> symbols, successful |-> 0, failed |-> 0,
                  details |-> EmptyMap]
    /\ multiPc = "running"

\* The loop over a symbol's timeframes starts.  Sequential mode (line 609)
\* takes the symbols in order, each after the one before it is recorded;
\* the executor (lines 585-586) takes the submitted calls in order while
\* it has an idle worker.
StartSymbol(i) ==
    /\ multiPc = "running"
    /\ work[i].state = "queued"
    /\ \A j \in 1..(i - 1) : work[j].state # "queued"
    /\ IF max_parallel > 1
       THEN Cardinality({j \in 1..symbols : work[j].state = "running"})
               < max_parallel
       ELSE \A j \in 1..(i - 1) : work[j].state = "recorded"
    /\ work' = [work EXCEPT ![i].state = "running"]
    /\ UNCHANGED <<symbols, timeframes, max_parallel, results, multiPc,
                   nonMultiVars>>

\* A loop over the timeframes that an exception of harvest_data ends.
HarvestTimeframeStopsOnRaise(i, outcome) ==
    /\ multiPc = "running"
    /\ work[i].state = "running"
    /\ Len(work[i].attempted) < timeframes
    /\ work' = [work EXCEPT
                  ![i].attempted = Append(@, outcome),
                  ![i].symbol_results =
                      Append(@, IF outcome = "raises" THEN "failed"
                                                      ELSE outcome),
                  ![i].success = @ /\ outcome \notin {"failed", "raises"},
                  ![i].state = IF outcome = "raises" THEN "returned" ELSE @]
    /\ UNCHANGED <<symbols, timeframes, max_parallel, results, multiPc,
                   nonMultiVars>>

\* One iteration of the loop over the timeframes (database_storage.py:
\* 558-580, 613-635): the dict harvest_data returns is kept under the
\* timeframe's key and a status "failed" clears success; an exception is
\* caught, kept as a dict with status "failed", and clears success.
HarvestTimeframe(i, outcome) ==
    /\ multiPc = "running"
    /\ work[i].state = "running"
    /\ Len(work[i].attempted) < timeframes
    /\ work' = [work EXCEPT
                  ![i].attempted = Append(@, outcome),
                  ![i].symbol_results =
                      Append(@, IF outcome = "raises" THEN "failed"
                                                      ELSE outcome),
                  ![i].success = @ /\ outcome \notin {"failed", "raises"}]
    /\ UNCHANGED <<symbols, timeframes, max_parallel, results, multiPc,
                   nonMultiVars>>

\* results after a symbol's loop (database_storage.py:591-595, 637-641).
Record(i) ==
    [results EXCEPT
        !.details = Put(@, i, work[i].symbol_results),
        !.successful = IF work[i].success THEN @ + 1 ELSE @,
        !.failed = IF work[i].success THEN @ ELSE @ + 1]

\* Sequential mode: the loop over the timeframes has ended and the symbol
\* is recorded (database_storage.py:637-641).
RecordSymbol(i) ==
    /\ multiPc = "running"
    /\ max_parallel = 1
    /\ work[i].state = "running"
    /\ Len(work[i].attempted) = timeframes
    /\ results' = Record(i)
    /\ work' = [work EXCEPT ![i].state = "recorded"]
    /\ UNCHANGED <<symbols, timeframes, max_parallel, multiPc, nonMultiVars>>

\* Parallel mode: harvest_single_symbol returns (database_storage.py:582).
SymbolReturns(i) ==
    /\ multiPc = "running"
    /\ max_parallel > 1
    /\ work[i].state = "running"
    /\ Len(work[i].attempted) = timeframes
    /\ work' = [work EXCEPT ![i].state = "returned"]
    /\ UNCHANGED <<symbols, timeframes, max_parallel, results, multiPc,
                   nonMultiVars>>

\* Parallel mode: as_completed yields a finished future and the caller's
\* thread records its symbol (database_storage.py:588-595).
CollectSymbol(i) ==
    /\ multiPc = "running"
    /\ work[i].state = "returned"
    /\ results' = Record(i)
    /\ work' = [work EXCEPT ![i].state = "recorded"]
    /\ UNCHANGED <<symbols, timeframes, max_parallel, multiPc, nonMultiVars>>

\* return results (database_storage.py:597, 643).
ReturnResults ==
    /\ multiPc = "running"
    /\ \A i \in 1..symbols : work[i].state = "recorded"
    /\ multiPc' = "returned"
    /\ UNCHANGED <<symbols, timeframes, max_parallel, work, results,
                   nonMultiVars>>

(***************************************************************************)
(* verify_data_integrity (database_storage.py:645-761).  Timestamps and     *)
(* differences are whole seconds.                                           *)
(***************************************************************************)
\* The timeframes verified: "20 secs", "1 min", "1 hour", "1 day",
\* "1 week" and "1 month", which contains none of the unit words.
Timeframes ==
    {[count |-> 20, unit |-> "sec"], [count |-> 1, unit |-> "min"],
     [count |-> 1, unit |-> "hour"], [count |-> 1, unit |-> "day"],
     [count |-> 1, unit |-> "week"], [count |-> 1, unit |-> "month"]}

\* The differences between consecutive rows, in twentieths of the nominal
\* spacing: 1, 1.5, 1.55, 1.6 and 2.25 times the spacing.
DeltaSteps == {20, 30, 31, 32, 45}

\* _timeframe_to_seconds (database_storage.py:763-784).
TimeframeToSeconds(tf) ==
    IF tf.unit = "sec" THEN tf.count
    ELSE IF tf.unit = "min" THEN tf.count * 60
    ELSE IF tf.unit = "hour" THEN tf.count * 3600
    ELSE IF tf.unit = "day" THEN tf.count * 86400
    ELSE IF tf.unit = "week" THEN tf.count * 604800
    ELSE 86400

\* The timestamp of row i of a result whose consecutive rows are
\* steps[1], steps[2], ... twentieths of the spacing s apart.
RECURSIVE TimestampAt(_, _, _)
TimestampAt(steps, s, i) ==
    IF i = 1 THEN 0
    ELSE TimestampAt(steps, s, i - 1) + (steps[i - 1] * s) \div 20

\* The <<open, high, low, close>> of the stored bars: a consistent bar and
\* three whose high is below their low.
Quotes == {<<1, 1, 1, 1>>, <<1, 1, 2, 1>>, <<2, 1, 2, 2>>, <<2, 0, 1, 0>>}

\* The rows of price_data the query selects (database_storage.py:676-697),
\* in timestamp order, each as _store_bars stored it (270-283).
Rows(s, steps, quotes) ==
    [i \in 1..Len(quotes) |->
        LET q == quotes[i]
            bar == [date |-> TimestampAt(steps, s, i), open |-> <<q[1]>>,
                    high |-> <<q[2]>>, low |-> <<q[3]>>, close |-> <<q[4]>>,
                    volume |-> <<0>>]
        IN  [timestamp |-> bar.date, open |-> q[1], high |-> q[2],
             low |-> q[3], close |-> q[4], volume |-> 0,
             data_quality |-> CalculateDataQuality(bar)]]

IntegrityInit(tf, steps, quotes) ==
    /\ timeframe = tf
    /\ data = Rows(TimeframeToSeconds(tf), steps, quotes)
    /\ verification = <<>>

\* The gap test (database_storage.py:726-730): diff > (expected_interval +
\* expected_interval * 0.05) * 1.5, which is 40 * diff > 63 * s.
IsGapWithoutTolerance(diff, s) == 2 * diff > 3 * s

IsGap(diff, s) == 40 * diff > 63 * s

\* The gaps list (database_storage.py:716-737).
Gaps(rows, s) ==
    LET pair == [i \in 1..(Len(rows) - 1) |->
                    LET diff == rows[i + 1].timestamp - rows[i].timestamp
                    IN  [start |-> rows[i].timestamp,
                         end |-> rows[i + 1].timestamp,
                         missing_bars |-> (diff \div s) - 1,
                         duration_seconds |-> diff]]
        gap(g) == IsGap(g.duration_seconds, s)
    IN  SelectSeq(pair, gap)

\* The anomalies list (database_storage.py:739-749).
NoAnomalies(rows) == <<>>

Anomalies(rows) ==
    LET inverted(row) == row.high < row.low
        found == SelectSeq(rows, inverted)
    IN  [i \in 1..Len(found) |->
            [timestamp |-> found[i].timestamp, type |-> "high_below_low"]]

\* The dict verify_data_integrity returns (database_storage.py:699-761).
Verification(tf, rows) ==
    IF rows = <<>>
    THEN [status |-> "no_data"]
    ELSE LET s == TimeframeToSeconds(tf)
             gaps == Gaps(rows, s)
             anomalies == Anomalies(rows)
         IN  [total_bars |-> Len(rows),
              timeframe_seconds |-> s,
              gaps |-> gaps,
              anomalies |-> anomalies,
              first_date |-> rows[1].timestamp,
              last_date |-> rows[Len(rows)].timestamp,
              status |-> IF gaps # <<>> /\ anomalies # <<>>
                         THEN "issues_found"
                         ELSE IF anomalies # <<>> THEN "anomalies_found"
                         ELSE IF gaps # <<>> THEN "gaps_found"
                         ELSE "verified"]

VerifyDataIntegrity ==
    /\ verification = <<>>
    /\ verification' = <<Verification(timeframe, data)>>
    /\ UNCHANGED <<timeframe, data, nonIntegVars>>

(***************************************************************************)
(* _calculate_data_quality called on its own (database_storage.py:422-446). *)
(***************************************************************************)
\* The values of a bar's keys: None, 0, 1 and 2.
BarValueChoices == {<<>>, <<0>>, <<1>>, <<2>>}

\* The bars scored: any of open, high, low and close may be missing.
ScoredBars == UNION {[keys -> BarValueChoices] : keys \in SUBSET OHLC}

QualityInit(bar) ==
    /\ scoredBar = bar
    /\ score = <<>>

CalculateDataQualityCall ==
    /\ score = <<>>
    /\ score' = IF QualityRaises(scoredBar)
                THEN <<[raised |-> TRUE, quality |-> 0]>>
                ELSE <<[raised |-> FALSE,
                        quality |-> CalculateDataQuality(scoredBar)]>>
    /\ UNCHANGED <<scoredBar, nonQualityVars>>

(***************************************************************************)
(* _parse_bar_timestamp (database_storage.py:380-420).  A str is the        *)
(* sequence of its characters.  A number n is [millions, units] with        *)
(* n = millions * 10^6 + units.  A datetime is a record of type "datetime": *)
(* with civil, its <<year, month, day, hour, minute, second>>, and aware,   *)
(* whether it carries a UTC offset; or with epoch, the <<millions of        *)
(* seconds, seconds, milliseconds>> since the epoch of the local time       *)
(* fromtimestamp gives; or with now, the value of datetime.now().           *)
(***************************************************************************)
DigitValue ==
    [c \in {"0", "1", "2", "3", "4", "5", "6", "7", "8", "9"} |->
        CASE c = "0" -> 0 [] c = "1" -> 1 [] c = "2" -> 2 [] c = "3" -> 3
          [] c = "4" -> 4 [] c = "5" -> 5 [] c = "6" -> 6 [] c = "7" -> 7
          [] c = "8" -> 8 [] c = "9" -> 9]

\* str.isdigit(), for the characters of the model.
IsDigits(s) == s # <<>> /\ \A i \in 1..Len(s) : s[i] \in DOMAIN DigitValue

Contains(s, c) == \E i \in 1..Len(s) : s[i] = c

\* int() of a str of digits.
RECURSIVE Number(_)
Number(s) ==
    IF s = <<>> THEN 0
    ELSE 10 * Number(SubSeq(s, 1, Len(s) - 1)) + DigitValue[s[Len(s)]]

\* str.strip(), for spaces.
RECURSIVE Strip(_)
Strip(s) ==
    IF s = <<>> THEN s
    ELSE IF Head(s) = " " THEN Strip(Tail(s))
    ELSE IF s[Len(s)] = " " THEN Strip(SubSeq(s, 1, Len(s) - 1))
    ELSE s

\* s.replace('Z', '+00:00') (database_storage.py:407).
RECURSIVE ReplaceZ(_)
ReplaceZ(s) ==
    IF s = <<>> THEN s
    ELSE IF Head(s) = "Z"
    THEN <<"+", "0", "0", ":", "0", "0">> \o ReplaceZ(Tail(s))
    ELSE <<Head(s)>> \o ReplaceZ(Tail(s))

DaysIn(year, month) ==
    IF month \in {4, 6, 9, 11} THEN 30
    ELSE IF month # 2 THEN 31
    ELSE IF year % 4 = 0 /\ (year % 100 # 0 \/ year % 400 = 0) THEN 29
    ELSE 28

\* datetime(year, month, day, hour, minute, second) is accepted.
ValidCivil(c) ==
    /\ c[1] \in 1..9999
    /\ c[2] \in 1..12
    /\ c[3] \in 1..DaysIn(c[1], c[2])
    /\ c[4] \in 0..23
    /\ c[5] \in 0..59
    /\ c[6] \in 0..59

Raised == [raised |-> TRUE]

Returned(value) == [raised |-> FALSE, value |-> value]

Civil(c, aware) ==
    IF ValidCivil(c)
    THEN Returned([type |-> "datetime", civil |-> c, aware |-> aware])
    ELSE Raised

\* The clock fields "HH:MM:SS" or "HH:MM" at the start of s, two digits
\* each; <<>> when s does not start so.
Clock(s) ==
    LET pair(i) == SubSeq(s, i, i + 1)
        hm == Len(s) >= 5 /\ IsDigits(pair(1)) /\ s[3] = ":"
                /\ IsDigits(pair(4))
    IN  IF hm /\ Len(s) >= 8 /\ s[6] = ":" /\ IsDigits(pair(7))
        THEN <<Number(pair(1)), Number(pair(4)), Number(pair(7))>>
        ELSE IF hm /\ (Len(s) = 5 \/ s[6] # ":")
        THEN <<Number(pair(1)), Number(pair(4)), 0>>
        ELSE <<>>

\* datetime.strptime(s, '%Y%m%d') for a str of 8 digits
\* (database_storage.py:398-399).
StrptimeDate(s) ==
    Civil(<<Number(SubSeq(s, 1, 4)), Number(SubSeq(s, 5, 6)),
            Number(SubSeq(s, 7, 8)), 0, 0, 0>>, FALSE)

\* datetime.strptime(s, '%Y%m%d %H:%M:%S') (database_storage.py:402-403)
\* for a str whose fields have two digits each: eight digits, white space,
\* and the clock with its seconds, with nothing after it.
StrptimeDateTime(s) ==
    LET rest == Strip(SubSeq(s, 9, Len(s)))
    IN  IF /\ IsDigits(SubSeq(s, 1, 8))
           /\ s[9] = " "
           /\ Len(rest) = 8
           /\ Clock(rest) # <<>>
        THEN Civil(<<Number(SubSeq(s, 1, 4)), Number(SubSeq(s, 5, 6)),
                     Number(SubSeq(s, 7, 8))>> \o Clock(rest), FALSE)
        ELSE Raised

\* datetime.fromisoformat(s) (database_storage.py:406-407) for a str
\* "YYYY-MM-DD", alone or followed by one separator character and a clock
\* "HH:MM" or "HH:MM:SS", itself alone or followed by "+00:00".
FromIsoFormat(s) ==
    LET date == <<Number(SubSeq(s, 1, 4)), Number(SubSeq(s, 6, 7)),
                  Number(SubSeq(s, 9, 10))>>
        dated == /\ Len(s) >= 10
                 /\ IsDigits(SubSeq(s, 1, 4)) /\ s[5] = "-"
                 /\ IsDigits(SubSeq(s, 6, 7)) /\ s[8] = "-"
                 /\ IsDigits(SubSeq(s, 9, 10))
        time == SubSeq(s, 12, Len(s))
        utc == <<"+", "0", "0", ":", "0", "0">>
        width == IF Len(time) >= 8 /\ time[6] = ":" THEN 8 ELSE 5
        after == SubSeq(time, width + 1, Len(time))
    IN  IF dated /\ Len(s) = 10 THEN Civil(date \o <<0, 0, 0>>, FALSE)
        ELSE IF dated /\ Len(s) > 11 /\ Clock(time) # <<>>
                /\ after \in {<<>>, utc}
        THEN Civil(date \o Clock(time), after = utc)
        ELSE Raised

\* A str argument is [text, zone]: the characters text, followed by the
\* time-zone name zone[1], one of those of database_storage.py:390, when
\* zone is not <<>>.  date_str after the loop of 392-395.
DateStr(date) == IF date.zone = <<>> THEN date.text ELSE Strip(date.text)

\* The branches for a str (database_storage.py:387-407); Fallthrough when
\* none of them returns.
Fallthrough == [raised |-> FALSE, fallthrough |-> TRUE]

ParseStr(date) ==
    LET s == DateStr(date)
    IN  IF Len(s) = 8 /\ IsDigits(s) THEN StrptimeDate(s)
        ELSE IF Contains(s, " ") /\ Len(s) >= 17 THEN StrptimeDateTime(s)
        ELSE IF Contains(s, "T") \/ Contains(s, "-")
        THEN FromIsoFormat(ReplaceZ(s))
        ELSE Fallthrough

\* n > 1e10, and n / 1000 and n as seconds since the epoch.
AboveE10(n) == n.millions > 10000 \/ (n.millions = 10000 /\ n.units > 0)

Milliseconds(n) ==
    <<n.millions \div 1000,
      (n.millions % 1000) * 1000 + n.units \div 1000, n.units % 1000>>

Seconds(n) == <<n.millions, n.units, 0>>

\* datetime.fromtimestamp(seconds) (database_storage.py:411-414), which
\* raises beyond the year 9999, that is from 253402300800 seconds on, give
\* or take the local offset.
FromTimestamp(e) ==
    IF e[1] >= 253402
    THEN Raised
    ELSE Returned([type |-> "datetime", epoch |-> e])

\* The try block of _parse_bar_timestamp (database_storage.py:383-416).
TryParse(bar) ==
    IF "date" \notin DOMAIN bar THEN Raised
    ELSE LET date == bar.date
             str == IF date.type = "str" THEN ParseStr(date) ELSE Fallthrough
         IN  IF date.type = "datetime" THEN Returned(date)
             ELSE IF str # Fallthrough THEN str
             ELSE IF date.type = "number"
             THEN FromTimestamp(IF AboveE10(date) THEN Milliseconds(date)
                                ELSE Seconds(date))
             ELSE Raised

Now == [type |-> "datetime", now |-> TRUE]

ParseBarTimestampUncaught(bar) == TryParse(bar)

\* _parse_bar_timestamp (database_storage.py:380-420): except Exception
\* returns datetime.now().
ParseBarTimestamp(bar) ==
    IF TryParse(bar).raised THEN Returned(Now) ELSE TryParse(bar)

\* The str dates of the model: a date part, a time part, and no zone name
\* or " US/Eastern" after them; and two that are not dates.  x[1] of a
\* time part is its separator.
DateTexts ==
    {<<"2", "0", "2", "3", "0", "1", "1", "5">>, <<"2", "0", "2", "3", "1", "3", "4", "5">>,
     <<"2", "0", "2", "3", "-", "0", "1", "-", "1", "5">>, <<"2", "0", "2", "3", "-", "0", "2", "-", "3", "0">>}

TimeTexts ==
    {<<>>, <<" ", "1", "0", ":", "3", "0", ":", "0", "0">>,
     <<" ", " ", "1", "0", ":", "3", "0", ":", "0", "0">>,
     <<" ", "2", "4", ":", "0", "0", ":", "0", "0">>,
     <<"T", "1", "0", ":", "3", "0", ":", "0", "0">>, <<"T", "1", "0", ":", "3", "0", ":", "0", "0", "Z">>,
     <<" ", "1", "0", ":", "3", "0">>}

\* A date without dashes is not followed by "T": what fromisoformat makes
\* of such a str depends on the version of the interpreter.
Texts ==
    {d \o c : d \in {x \in DateTexts : Contains(x, "-")}, c \in TimeTexts}
    \cup {d \o c : d \in DateTexts,
                    c \in {x \in TimeTexts : x = <<>> \/ x[1] = " "}}
    \cup {<<>>, <<"a", "b", "c">>}

StrDates ==
    {[type |-> "str", text |-> s, zone |-> <<>>] : s \in Texts} \cup
    {[type |-> "str", text |-> s \o <<" ">>, zone |-> <<"US/Eastern">>] :
        s \in Texts}

\* The numeric dates: 0, 1673778600, 10^10, 10^10 + 1, 1673778600123 and
\* 10^15.
NumberDates ==
    {[type |-> "number", millions |-> n[1], units |-> n[2]] :
        n \in {<<0, 0>>, <<1673, 778600>>, <<10000, 0>>, <<10000, 1>>,
               <<1673778, 600123>>, <<1000000000, 0>>}}

DatetimeDates ==
    {[type |-> "datetime", civil |-> <<2023, 1, 15, 10, 30, 0>>,
      aware |-> FALSE], Now}

\* The bars parsed: with a date of each kind, with the date None, and
\* without the key.
DatedBars ==
    {[date |-> d] : d \in StrDates \cup NumberDates \cup DatetimeDates
                             \cup {[type |-> "NoneType"]}}
    \cup {[open |-> <<1>>]}

ParseInit(bar) ==
    /\ datedBar = bar
    /\ timestamp = <<>>

ParseBarTimestampCall ==
    /\ timestamp = <<>>
    /\ timestamp' = <<ParseBarTimestamp(datedBar)>>
    /\ UNCHANGED <<datedBar, nonParseVars>>

(***************************************************************************)
(* HarvesterClient.harvesting_loop (harvester_client.py:196-245), run by    *)
(* the harvesting thread, and stop() (105-133) setting the flag from        *)
(* another thread.                                                          *)
(***************************************************************************)
\* After start_scheduled_harvesting (harvester_client.py:161-194): the
\* arguments are stored and the thread is about to test the while
\* condition.
LoopInit(nSymbols, tfs, seconds) ==
    /\ stop_event = FALSE
    /\ clientSymbols = nSymbols
    /\ clientTimeframes = tfs
    /\ interval = seconds
    /\ loopPc = "while"
    /\ symbolAt = 0
    /\ timeframeAt = 0
    /\ waited = 0
    /\ passes = 0
    /\ attempted = <<>>
    /\ lateCalls = 0
    /\ lateSleeps = 0

\* self.stop_event.set() in stop() (harvester_client.py:119).
StopEventSet ==
    /\ ~stop_event
    /\ stop_event' = TRUE
    /\ UNCHANGED <<clientSymbols, clientTimeframes, interval, loopPc,
                   symbolAt, timeframeAt, waited, passes, lateCalls,
                   lateSleeps, attempted, nonLoopVars>>

\* while not self.stop_event.is_set() (harvester_client.py:200).
WhileCheck ==
    /\ loopPc = "while"
    /\ stop_event \/ passes < MaxPasses
    /\ IF stop_event
       THEN loopPc' = "done" /\ UNCHANGED <<symbolAt, passes, attempted>>
       ELSE /\ loopPc' = "symbol"
            /\ symbolAt' = 1
            /\ passes' = passes + 1
            /\ attempted' = <<>>
    /\ UNCHANGED <<stop_event, clientSymbols, clientTimeframes, interval,
                   timeframeAt, waited, lateCalls, lateSleeps, nonLoopVars>>

\* for symbol in self.symbols: if self.stop_event.is_set(): break
\* (harvester_client.py:203-205); after the loop the wait begins (237).
SymbolCheck ==
    /\ loopPc = "symbol"
    /\ IF symbolAt > clientSymbols \/ stop_event
       THEN loopPc' = "wait" /\ waited' = 0 /\ UNCHANGED timeframeAt
       ELSE loopPc' = "timeframe" /\ timeframeAt' = 1 /\ UNCHANGED waited
    /\ UNCHANGED <<stop_event, clientSymbols, clientTimeframes, interval,
                   symbolAt, passes, lateCalls, lateSleeps, attempted,
                   nonLoopVars>>

TimeframeCheckWithoutFlag ==
    /\ loopPc = "timeframe"
    /\ IF timeframeAt > Len(clientTimeframes)
       THEN loopPc' = "symbol" /\ symbolAt' = symbolAt + 1
       ELSE loopPc' = "call" /\ UNCHANGED symbolAt
    /\ UNCHANGED <<stop_event, clientSymbols, clientTimeframes, interval,
                   timeframeAt, waited, passes, lateCalls, lateSleeps,
                   attempted, nonLoopVars>>

\* for tf in self.timeframes: if self.stop_event.is_set(): break
\* (harvester_client.py:207-209); the break goes on with the next symbol.
TimeframeCheck ==
    /\ loopPc = "timeframe"
    /\ IF timeframeAt > Len(clientTimeframes) \/ stop_event
       THEN loopPc' = "symbol" /\ symbolAt' = symbolAt + 1
       ELSE loopPc' = "call" /\ UNCHANGED symbolAt
    /\ UNCHANGED <<stop_event, clientSymbols, clientTimeframes, interval,
                   timeframeAt, waited, passes, lateCalls, lateSleeps,
                   attempted, nonLoopVars>>

\* self.harvester.harvest_data(...) begins (harvester_client.py:212-217).
\* For a timeframe without 'bar_size' the argument tf["bar_size"] raises
\* KeyError, and so does the message of the handler (231), which leaves
\* the pass for the outer handler (242-245).
HarvestDataBegins ==
    /\ loopPc = "call"
    /\ IF clientTimeframes[timeframeAt]
       THEN /\ loopPc' = "harvest"
            /\ attempted' = Append(attempted, <<symbolAt, timeframeAt>>)
            /\ lateCalls' = lateCalls + (IF stop_event THEN 1 ELSE 0)
       ELSE /\ loopPc' = "retry"
            /\ UNCHANGED <<attempted, lateCalls>>
    /\ UNCHANGED <<stop_event, clientSymbols, clientTimeframes, interval,
                   symbolAt, timeframeAt, waited, passes, lateSleeps,
                   nonLoopVars>>

\* harvest_data returns or raises; either way time.sleep(1) follows
\* (harvester_client.py:219-232).
HarvestDataEnds ==
    /\ loopPc = "harvest"
    /\ loopPc' = "pause"
    /\ UNCHANGED <<stop_event, clientSymbols, clientTimeframes, interval,
                   symbolAt, timeframeAt, waited, passes, lateCalls,
                   lateSleeps, attempted, nonLoopVars>>

\* time.sleep(1) returns (harvester_client.py:228, 232) and the loop takes
\* the next timeframe.
PauseEnds ==
    /\ loopPc = "pause"
    /\ loopPc' = "timeframe"
    /\ timeframeAt' = timeframeAt + 1
    /\ UNCHANGED <<stop_event, clientSymbols, clientTimeframes, interval,
                   symbolAt, waited, passes, lateCalls, lateSleeps,
                   attempted, nonLoopVars>>

\* for _ in range(self.interval_hours * 3600):
\*     if self.stop_event.is_set(): break (harvester_client.py:237-239).
WaitCheck ==
    /\ loopPc = "wait"
    /\ loopPc' = IF waited >= interval \/ stop_event
                 THEN "while" ELSE "sleep"
    /\ UNCHANGED <<stop_event, clientSymbols, clientTimeframes, interval,
                   symbolAt, timeframeAt, waited, passes, lateCalls,
                   lateSleeps, attempted, nonLoopVars>>

\* time.sleep(1) of the wait returns (harvester_client.py:240).
WaitSleepEnds ==
    /\ loopPc = "sleep"
    /\ loopPc' = "wait"
    /\ waited' = waited + 1
    /\ lateSleeps' = lateSleeps + (IF stop_event THEN 1 ELSE 0)
    /\ UNCHANGED <<stop_event, clientSymbols, clientTimeframes, interval,
                   symbolAt, timeframeAt, passes, lateCalls, attempted,
                   nonLoopVars>>

\* time.sleep(60) of the outer handler returns
\* (harvester_client.py:242-245).
RetryEnds ==
    /\ loopPc = "retry"
    /\ loopPc' = "while"
    /\ UNCHANGED <<stop_event, clientSymbols, clientTimeframes, interval,
                   symbolAt, timeframeAt, waited, passes, lateCalls,
                   lateSleeps, attempted, nonLoopVars>>

\* The steps of the harvesting thread.
HarvestingLoop ==
    \/ WhileCheck
    \/ SymbolCheck
    \/ TimeframeCheck
    \/ HarvestDataBegins
    \/ HarvestDataEnds
    \/ PauseEnds
    \/ WaitCheck
    \/ WaitSleepEnds
    \/ RetryEnds

(***************************************************************************)
(* get_last_price (data_feed.py:296-327), called from a thread of its own  *)
(* while the delivery thread runs the gateway's callbacks.                 *)
(***************************************************************************)
PriceInit ==
    /\ glPc = "idle"
    /\ glId = 0
    /\ glPolls = 0
    /\ glResult = <<>>
    /\ glBefore = EmptyMap
    /\ glTicks = <<>>

\* data['last_price'] is not None: tickPrice sets last_price and
\* last_timestamp together (data_feed.py:216-218) and nothing else writes
\* either.
HasLastPrice(quote) == quote.last_timestamp # "None"

\* The subscriptions of the symbol that hold a last price (308-310).
Priced == {id \in DOMAIN market_data : HasLastPrice(market_data[id])}

\* The first of them in the order of the dict, the order of insertion.
FirstPriced == CHOOSE id \in Priced : \A other \in Priced : id <= other

\* Lines 308-316: the price of a priced subscription is returned at once;
\* else request_market_data(symbol, snapshot=True) subscribes, or raises
\* ConnectionError on a session that is down (data_feed.py:63-64).
GetLastPriceBegins ==
    /\ glPc = "idle"
    /\ glBefore' = market_data
    /\ IF Priced # {}
       THEN /\ glPc' = "returned"
            /\ glResult' = <<market_data[FirstPriced].last_price>>
            /\ UNCHANGED <<glId, idVars, market_data, quotesLockless,
                           opResult>>
       ELSE IF ~connected
       THEN /\ glPc' = "raised"
            /\ opResult' = "NotConnected"
            /\ UNCHANGED <<glId, glResult, idVars, market_data,
                           quotesLockless>>
       ELSE /\ TakeReqId
            /\ market_data' = Put(market_data, req_id', NewQuote)
            /\ quotesLockless' = quotesLockless \cup {"request_market_data"}
            /\ opResult' = "ok"
            /\ glId' = req_id'
            /\ glPc' = "poll"
            /\ UNCHANGED glResult
    /\ UNCHANGED <<glPolls, glTicks, historical_data, tick_callbacks,
                   bar_callbacks, responseVars, waiterVars>>
    /\ UNCHANGED nonPriceVars

\* cancel_market_data(req_id) as get_last_price calls it (94-110): it raises
\* ConnectionError on a session that is down, before the entry is popped,
\* and get_last_price has no handler for it.
CancelAndReturn(result) ==
    /\ glTicks' = IF glId \in DOMAIN market_data
                  THEN market_data[glId].raw_ticks
                  ELSE <<>>
    /\ IF ~connected
       THEN /\ glPc' = "raised"
            /\ opResult' = "NotConnected"
            /\ UNCHANGED <<glResult, market_data, tick_callbacks,
                           quotesLockless>>
       ELSE /\ glPc' = "returned"
            /\ glResult' = result
            /\ market_data' = Drop(market_data, glId)
            /\ tick_callbacks' = tick_callbacks \ {glId}
            /\ quotesLockless' = quotesLockless \cup {"cancel_market_data"}
            /\ opResult' = "ok"

\* One iteration of the wait (319-324): the time is tested first, then the
\* quote; a quote with a last price ends the call, else the caller sleeps.
GetLastPriceLooks ==
    /\ glPc = "poll"
    /\ glPolls < MaxPolls
    /\ IF glId \in DOMAIN market_data /\ HasLastPrice(market_data[glId])
       THEN /\ CancelAndReturn(<<market_data[glId].last_price>>)
            /\ UNCHANGED glPolls
       ELSE /\ glPolls' = glPolls + 1
            /\ UNCHANGED <<glPc, glResult, glTicks, market_data,
                           tick_callbacks, quotesLockless, opResult>>
    /\ UNCHANGED <<glId, glBefore, idVars, historical_data, bar_callbacks,
                   responseVars, waiterVars>>
    /\ UNCHANGED nonPriceVars

\* The time is up (319, 326-327): the quote is not looked at again.
GetLastPriceTimesOut ==
    /\ glPc = "poll"
    /\ glPolls = MaxPolls
    /\ CancelAndReturn(<<>>)
    /\ UNCHANGED <<glId, glPolls, glBefore, idVars, historical_data,
                   bar_callbacks, responseVars, waiterVars>>
    /\ UNCHANGED nonPriceVars

GetLastPrice ==
    \/ GetLastPriceBegins
    \/ GetLastPriceLooks
    \/ GetLastPriceTimesOut

(***************************************************************************)
(* TradeManager (trade_manager.py).  The order manager gives every order   *)
(* an id of its own; trade n is placed with order n.                       *)
(***************************************************************************)
TradeStatuses == {"PARTIALLY_FILLED", "FILLED", "CANCELLED", "REJECTED"}

TradeInit ==
    /\ active_trades = EmptyMap
    /\ trade_history = <<>>
    /\ tradeIds = 0

\* place_trade (trade_manager.py:30-94): the trade is tracked as PENDING;
\* when the order manager raises it goes to the history as FAILED, else it
\* is OPEN with the order's id.
PlaceTrade(raises) ==
    /\ tradeIds < MaxTrades
    /\ Len(trade_history) < MaxHistory
    /\ tradeIds' = tradeIds + 1
    /\ IF raises
       THEN /\ trade_history' =
                  Append(trade_history,
                         [id |-> tradeIds', order_id |-> 0,
                          status |-> "FAILED"])
            /\ UNCHANGED active_trades
       ELSE /\ active_trades' =
                  Put(active_trades, tradeIds',
                      [id |-> tradeIds', order_id |-> tradeIds',
                       status |-> "OPEN"])
            /\ UNCHANGED trade_history
    /\ UNCHANGED nonTradeVars

\* The active trades of the order (108-109); the loop takes the first.
TradesOf(order_id) ==
    {id \in DOMAIN active_trades : active_trades[id].order_id = order_id}

\* update_trade (trade_manager.py:96-133): the status is stored; a FILLED,
\* CANCELLED or REJECTED trade is copied to the history (120-124), and only
\* a FILLED one is removed from the active trades (127-128).
UpdateTrade(order_id, status) ==
    /\ Len(trade_history) < MaxHistory
    /\ IF TradesOf(order_id) = {}
       THEN UNCHANGED <<active_trades, trade_history>>
       ELSE LET id == CHOOSE i \in TradesOf(order_id) :
                         \A j \in TradesOf(order_id) : i <= j
                trade == [active_trades[id] EXCEPT !.status = status]
            IN  /\ trade_history' =
                      IF status \in {"FILLED", "CANCELLED", "REJECTED"}
                      THEN Append(trade_history, trade)
                      ELSE trade_history
                /\ active_trades' =
                      IF status = "FILLED"
                      THEN Drop(active_trades, id)
                      ELSE Put(active_trades, id, trade)
    /\ UNCHANGED tradeIds
    /\ UNCHANGED nonTradeVars

(***************************************************************************)
(* HarvesterClient: start, stop, start_scheduled_harvesting                *)
(* (harvester_client.py:56-135, 161-194), HarvesterManager.update_config   *)
(* (harvester_manager.py:121-143) and the harvesting threads.  A session   *)
(* is what connect_and_run and disconnect_and_stop leave of an IBKRClient: *)
(* connected and auto_reconnect, and whether it was ever opened.           *)
(***************************************************************************)
\* IBKRClient.__init__ (client.py:62-99); auto_reconnect defaults to True
\* and the HarvesterClient passes none (harvester_client.py:48, 74-78).
NewSession == [connected |-> FALSE, auto_reconnect |-> TRUE, opened |-> FALSE]

ClientInit ==
    /\ client = NewSession
    /\ data_feed = <<>>
    /\ running = FALSE
    /\ harvesting_thread = 0
    /\ threads = <<>>
    /\ hcPc = "idle"
    /\ hcResult = "none"

\* connect_and_run (client.py:107-137): returns at once on a connected
\* session; else it returns once connected, or disconnects and raises
\* ConnectionError after max_wait_time.
ConnectAndRun(session, ok) ==
    IF session.connected
    THEN session
    ELSE [session EXCEPT !.connected = ok, !.opened = TRUE]

ConnectRaises(session, ok) == ~session.connected /\ ~ok

\* disconnect_and_stop (client.py:153-168): auto_reconnect is turned off
\* for the disconnect and restored after it.
DisconnectAndStop(session) ==
    [session EXCEPT !.connected = FALSE]

\* start (harvester_client.py:56-103) on a client that is not running and
\* whose base session is `session`: the sessions and self.running after it;
\* it returns self.running.  The base session connects or raises; then a
\* new data feed connects or raises, and may have dropped by the test of
\* line 86.  Every failure calls self.stop(), which returns at once because
\* self.running is False (112).
Started(session, clientOk, feedOk, feedStays) ==
    IF ConnectRaises(session, clientOk)
    THEN [client |-> ConnectAndRun(session, clientOk),
          data_feed |-> data_feed, running |-> FALSE]
    ELSE IF ~feedOk
    THEN [client |-> ConnectAndRun(session, clientOk),
          data_feed |-> <<ConnectAndRun(NewSession, FALSE)>>,
          running |-> FALSE]
    ELSE [client |-> ConnectAndRun(session, clientOk),
          data_feed |->
             <<[ConnectAndRun(NewSession, TRUE) EXCEPT !.connected = feedStays]>>,
          running |-> feedStays]

Start(clientOk, feedOk, feedStays) ==
    /\ hcPc = "idle"
    /\ IF running
       THEN /\ hcResult' = "start: True"
            /\ UNCHANGED <<client, data_feed, running, stop_event>>
       ELSE LET s == Started(client, clientOk, feedOk, feedStays)
            IN  /\ client' = s.client
                /\ data_feed' = s.data_feed
                /\ running' = s.running
                /\ stop_event' = IF s.running THEN FALSE ELSE stop_event
                /\ hcResult' = IF s.running THEN "start: True"
                                            ELSE "start: False"
    /\ UNCHANGED <<harvesting_thread, threads, hcPc, loopOwnVars>>
    /\ UNCHANGED nonClientVars

\* start_scheduled_harvesting (harvester_client.py:161-194): a new thread
\* is created and started whatever self.harvesting_thread holds.
StartScheduledHarvesting ==
    /\ hcPc = "idle"
    /\ Len(threads) < MaxThreads
    /\ IF ~running
       THEN /\ hcResult' = "start_scheduled_harvesting: False"
            /\ UNCHANGED <<threads, harvesting_thread>>
       ELSE /\ threads' = Append(threads, "check")
            /\ harvesting_thread' = Len(threads) + 1
            /\ hcResult' = "start_scheduled_harvesting: True"
    /\ UNCHANGED <<client, data_feed, running, hcPc, stop_event, loopOwnVars>>
    /\ UNCHANGED nonClientVars

\* stop (harvester_client.py:105-123), called by its user or by
\* update_config through HarvesterManager.stop: up to the join.
StopBegins(caller) ==
    /\ hcPc = "idle"
    /\ IF ~running
       THEN /\ caller = "stop"
            /\ hcResult' = "stop: True"
            /\ UNCHANGED <<hcPc, stop_event>>
       ELSE /\ caller = "update_config" => Len(threads) < MaxThreads
            /\ stop_event' = TRUE
            /\ hcPc' = IF caller = "stop" THEN "join" ELSE "rejoin"
            /\ UNCHANGED hcResult
    /\ UNCHANGED <<client, data_feed, running, harvesting_thread, threads,
                   loopOwnVars>>
    /\ UNCHANGED nonClientVars

\* stop (harvester_client.py:123-131): join(timeout=10) returns, whether
\* the thread has ended or not; the base client is disconnected and self.running cleared; self.data_feed is left
\* as it is.
StopEnds ==
    /\ hcPc = "join"
    /\ client' = DisconnectAndStop(client)
    /\ running' = FALSE
    /\ hcPc' = "idle"
    /\ hcResult' = "stop: True"
    /\ UNCHANGED <<data_feed, harvesting_thread, threads, stop_event,
                   loopOwnVars>>
    /\ UNCHANGED nonClientVars

\* update_config (harvester_manager.py:138-141) after the join of its
\* stop(): the rest of stop, then HarvesterManager.start, which calls
\* start and, when that returns True, start_scheduled_harvesting.
UpdateConfigEnds(clientOk, feedOk, feedStays) ==
    /\ hcPc = "rejoin"
    /\ LET s == Started(DisconnectAndStop(client), clientOk, feedOk,
                        feedStays)
       IN  /\ client' = s.client
           /\ data_feed' = s.data_feed
           /\ running' = s.running
           /\ stop_event' = IF s.running THEN FALSE ELSE stop_event
           /\ threads' = IF s.running THEN Append(threads, "check")
                                      ELSE threads
           /\ harvesting_thread' = IF s.running THEN Len(threads) + 1
                                                ELSE harvesting_thread
           /\ hcResult' = IF s.running THEN "start: True" ELSE "start: False"
    /\ hcPc' = "idle"
    /\ UNCHANGED loopOwnVars
    /\ UNCHANGED nonClientVars

\* A harvesting thread (harvester_client.py:196-245) at one of its tests
\* of the flag: it ends, or goes on to its next harvest_data call.
ThreadChecks(th) ==
    /\ th \in 1..Len(threads)
    /\ threads[th] = "check"
    /\ threads' = [threads EXCEPT ![th] = IF stop_event THEN "done"
                                                        ELSE "harvest"]
    /\ UNCHANGED <<client, data_feed, running, harvesting_thread, hcPc,
                   hcResult, stop_event, loopOwnVars>>
    /\ UNCHANGED nonClientVars

\* Its harvest_data call returns (212-232).
ThreadHarvested(th) ==
    /\ th \in 1..Len(threads)
    /\ threads[th] = "harvest"
    /\ threads' = [threads EXCEPT ![th] = "check"]
    /\ UNCHANGED <<client, data_feed, running, harvesting_thread, hcPc,
                   hcResult, stop_event, loopOwnVars>>
    /\ UNCHANGED nonClientVars

(***************************************************************************)
(* harvest_data reading the vendor's answer (database_storage.py:165-185): *)
(* request_historical_data, get_historical_data (data_feed.py:173-197) and *)
(* the loop of _store_bars over the list it was given (259-260), while the *)
(* delivery thread runs historicalData and historicalDataEnd.  The list    *)
(* get_historical_data returns is self.historical_data[req_id]['bars']     *)
(* itself (197), the list historicalData appends to (276).                 *)
(***************************************************************************)
ReadInit ==
    /\ hdPc = "idle"
    /\ hdId = 0
    /\ hdAt = 0
    /\ hdProcessed = <<>>
    /\ hdReturned = <<>>

\* Lines 167-172: the request is registered and sent; on a session that is
\* down request_historical_data raises and harvest_data returns "failed".
HarvestRequests ==
    /\ hdPc = "idle"
    /\ IF ~connected
       THEN /\ hdPc' = "failed"
            /\ opResult' = "NotConnected"
            /\ UNCHANGED <<hdId, idVars, historical_data>>
       ELSE /\ TakeReqId
            /\ historical_data' = Put(historical_data, req_id', NewHistory)
            /\ opResult' = "ok"
            /\ hdId' = req_id'
            /\ hdPc' = "wait"
    /\ UNCHANGED <<hdAt, hdProcessed, hdReturned, market_data, tick_callbacks,
                   bar_callbacks, quotesLockless, responseVars, waiterVars>>
    /\ UNCHANGED nonReadVars

\* get_historical_data returns (data_feed.py:190-197): the wait has ended,
\* by completion or by timeout, and the list is handed over; harvest_data
\* returns "no_data" for an empty one (177-179), else _store_bars starts.
GetHistoricalDataReturns(timedOut) ==
    /\ hdPc = "wait"
    /\ timedOut \/ historical_data[hdId].completed
    /\ hdReturned' = historical_data[hdId].bars
    /\ hdPc' = IF historical_data[hdId].bars = <<>> THEN "no_data"
                                                    ELSE "store"
    /\ UNCHANGED <<hdId, hdAt, hdProcessed, reqVars>>
    /\ UNCHANGED nonReadVars

\* One step of 'for bar in bars' (database_storage.py:259-260): the
\* iterator takes the next element the list holds now, or ends.
StoreBarsIterates ==
    /\ hdPc = "store"
    /\ IF hdAt < Len(historical_data[hdId].bars)
       THEN /\ hdAt' = hdAt + 1
            /\ hdProcessed' =
                  Append(hdProcessed, historical_data[hdId].bars[hdAt + 1])
            /\ UNCHANGED hdPc
       ELSE /\ hdPc' = "stored"
            /\ UNCHANGED <<hdAt, hdProcessed>>
    /\ UNCHANGED <<hdId, hdReturned, reqVars>>
    /\ UNCHANGED nonReadVars

(***************************************************************************)
(* place_order and cancel_order (order_manager.py:65-137) as their callers *)
(* run them: the with-block first, the message to the gateway after it,    *)
(* and the delivery thread's callbacks in between.                         *)
(***************************************************************************)
CallsInit ==
    /\ placing = <<>>
    /\ transmitted = EmptyMap
    /\ cancelling = <<>>
    /\ coResult = "none"
    /\ cancels = {}

\* place_order that leaves the record to be stored after the order is sent.
PlaceOrderDefersRecord(quantity, status_callback, execution_callback) ==
    /\ placing = <<>>
    /\ connected => orders_lock = "free"
    /\ IF ~connected
       THEN /\ opResult' = "NotConnected"
            /\ UNCHANGED <<idVars, placing>>
       ELSE /\ TakeReqId
            /\ opResult' = "ok"
            /\ placing' = <<[id |-> req_id',
                             status_callback |-> status_callback,
                             execution_callback |-> execution_callback]>>
    /\ UNCHANGED <<transmitted, cancelling, coResult, cancels, ordVars,
                   responseVars, feedVars, waiterVars>>
    /\ UNCHANGED nonCallVars

\* place_order up to the end of its with-block (order_manager.py:85-107):
\* ConnectionError on a session that is down; else the id is taken, and
\* under orders_lock the record is stored and the handlers registered.
PlaceOrderRecords(quantity, status_callback, execution_callback) ==
    /\ placing = <<>>
    /\ connected => orders_lock = "free"
    /\ IF ~connected
       THEN /\ opResult' = "NotConnected"
            /\ UNCHANGED <<idVars, orders, order_status_callbacks,
                           execution_callbacks, execLists, lastStatusCb,
                           placing>>
       ELSE /\ TakeReqId
            /\ orders' = Put(orders, req_id', NewOrder(quantity))
            /\ execLists' = Append(execLists, <<>>)
            /\ lastStatusCb' = Drop(lastStatusCb, req_id')
            /\ order_status_callbacks' =
                   IF status_callback
                   THEN order_status_callbacks \cup {req_id'}
                   ELSE order_status_callbacks
            /\ execution_callbacks' =
                   IF execution_callback
                   THEN execution_callbacks \cup {req_id'}
                   ELSE execution_callbacks
            /\ opResult' = "ok"
            /\ placing' = <<[id |-> req_id',
                             status_callback |-> status_callback,
                             execution_callback |-> execution_callback]>>
    /\ UNCHANGED <<executions, execObjs, snapshot, reported, statusRepeat,
                   orders_lock, handler, deliveryThread, loggedErrors,
                   ordersLockless, responseVars, feedVars, waiterVars>>
    /\ UNCHANGED <<transmitted, cancelling, coResult, cancels>>
    /\ UNCHANGED nonCallVars

\* self.placeOrder(order_id, contract, order) (order_manager.py:109-112).
PlaceOrderTransmits ==
    /\ placing # <<>>
    /\ transmitted' =
          Put(transmitted, placing[1].id,
              [status_callback |-> placing[1].status_callback,
               execution_callback |-> placing[1].execution_callback])
    /\ placing' = <<>>
    /\ UNCHANGED <<cancelling, coResult, cancels, reqVars, ordVars>>
    /\ UNCHANGED nonCallVars

\* cancel_order up to the end of its with-block (order_manager.py:121-133):
\* ConnectionError on a session that is down, ValueError for an id without
\* a record, and a plain return for a record whose status is Filled or
\* Cancelled; else the caller goes on to send the cancel.
CancelOrderChecks(order_id) ==
    /\ cancelling = <<>>
    /\ connected => orders_lock = "free"
    /\ IF ~connected
       THEN coResult' = "ConnectionError" /\ UNCHANGED cancelling
       ELSE IF order_id \notin DOMAIN orders
       THEN coResult' = "ValueError" /\ UNCHANGED cancelling
       ELSE IF orders[order_id].status \in {"Filled", "Cancelled"}
       THEN coResult' = "returned" /\ UNCHANGED cancelling
       ELSE cancelling' = <<order_id>> /\ UNCHANGED coResult
    /\ UNCHANGED <<placing, transmitted, cancels, reqVars, ordVars>>
    /\ UNCHANGED nonCallVars

\* self.cancelOrder(order_id) (order_manager.py:135-137), after the lock
\* has been released.
CancelOrderTransmits ==
    /\ cancelling # <<>>
    /\ cancels' = cancels \cup
                     {[order_id |-> cancelling[1],
                       is_complete |-> orders[cancelling[1]].is_complete]}
    /\ cancelling' = <<>>
    /\ coResult' = "sent"
    /\ UNCHANGED <<placing, transmitted, reqVars, ordVars>>
    /\ UNCHANGED nonCallVars

HandlerChoices == {<<FALSE, FALSE>>, <<TRUE, TRUE>>}

RequestOps ==
    \/ \E q \in Quantities : \E a \in OrderActions : PlaceMarketOrder(q, a)
    \/ \E ok \in BOOLEAN : RequestAccountSummary(ok)
    \/ \E cb \in BOOLEAN : RequestMarketData(cb)
    \/ \E cb \in BOOLEAN : RequestHistoricalData(cb)
    \/ \E q \in Quantities \ {0} : \E h \in HandlerChoices :
           PlaceOrder(q, h[1], h[2])

AccountCallbacks ==
    \/ \E id \in ReqIds : AccountSummary(id, "NetLiquidation")
    \/ \E id \in ReqIds : AccountSummaryEnd(id)

Awaiting ==
    \/ \E w \in Waiters : \E id \in ReqIds : GasrCheck(w, id)
    \/ \E w \in Waiters : GasrLookup(w)
    \/ \E w \in Waiters : GasrWake(w)
    \/ \E w \in Waiters : GasrTimeout(w)
    \/ \E w \in Waiters : GasrPopResponses(w)
    \/ \E w \in Waiters : GasrPopEvent(w)

(***************************************************************************)
(* Properties: the request correlator.                                     *)
(***************************************************************************)

\* C1: across any interleaving of get_next_req_id calls and nextValidId
\* callbacks, every id get_next_req_id returns is strictly greater than
\* every id it returned earlier, so no id is issued twice.
C1_IdsStrictlyIncrease == ~reissued

\* The calls of get_account_summary_result that were woken by Event e, and
\* those of them that returned the entry registered for their id.
Woken(e) ==
    {w \in Waiters :
        /\ wev[w] = e
        /\ \/ wpc[w] \in {"pop_responses", "pop_event"}
           \/ wpc[w] = "done" /\ wout[w] \in {"Returned", "KeyError"}}
Obtained(e) ==
    {w \in Waiters : wev[w] = e /\ wout[w] = "Returned" /\ wgot[w]}

\* C2: for every registered request, across any interleaving of
\* accountSummaryEnd callbacks and get_account_summary_result calls, exactly
\* one call obtains the accumulated result, no other call returns it again,
\* and no call fails with an unhandled error.
C2_ExactlyOneObserver ==
    /\ \A w \in Waiters : wout[w] # "KeyError"
    /\ \A e \in 1..Len(evFlag) :
          /\ Cardinality(Obtained(e)) <= 1
          /\ (Woken(e) # {} /\ \A w \in Woken(e) : wpc[w] = "done")
                => Cardinality(Obtained(e)) = 1

\* A step of one of the five request-issuing operations.
RequestOpStep ==
    \/ \E q \in Quantities : \E a \in OrderActions : PlaceMarketOrder(q, a)
    \/ \E ok \in BOOLEAN : RequestAccountSummary(ok)
    \/ \E cb \in BOOLEAN : RequestMarketData(cb)
    \/ \E cb \in BOOLEAN : RequestHistoricalData(cb)
    \/ \E q \in Quantities \ {0} : \E h \in HandlerChoices :
           PlaceOrder(q, h[1], h[2])

\* C3: every request-issuing operation called while connected is false fails
\* with the not-connected error, leaves the request-id counter unchanged and
\* registers no pending request, subscription or order entry.
C3_NotConnectedRejects ==
    [][(~connected /\ RequestOpStep)
          => /\ opResult' = "NotConnected"
             /\ UNCHANGED <<req_id, issuedMax, responses, response_events,
                            evFlag, market_data, historical_data,
                            tick_callbacks, bar_callbacks, orders,
                            order_status_callbacks, execution_callbacks>>]_vars

\* C3 witness: an operation was rejected on a client that had issued ids
\* while it was connected.
C3_Witness == opResult = "NotConnected" /\ ~connected /\ req_id > 0

\* C4: when get_account_summary_result times out, it returns the empty
\* timeout result and the pending entry of its request id (accumulated
\* responses and completion event) is still registered afterwards.
C4_TimeoutKeepsEntry ==
    [][\A w \in Waiters :
          (wpc[w] = "wait" /\ wpc'[w] = "done")
             => /\ wout'[w] = "Timeout"
                /\ wres'[w] = <<>>
                /\ wid[w] \in DOMAIN responses'
                /\ wid[w] \in DOMAIN response_events']_vars

(***************************************************************************)
(* Properties: the session.                                                *)
(***************************************************************************)
ReconnectAttempts ==
    attempts["unexpected"] + attempts["deliberate"] + attempts["timeout"]

\* C5: when the user's connect_and_run times out, it raises the
\* connect-timeout error and the session ends disconnected: connected is
\* false and no further connection attempt is in progress.
C5_TimeoutEndsDisconnected ==
    userResult = "ConnectTimeout"
       => ~connected /\ ReconnectAttempts = 0 /\ attempts["user"] = 0

\* C6: each unexpected transport closure triggers at most one reconnect
\* attempt, and two reconnect attempts are never in progress at once.
C6_OneReconnectPerClosure ==
    /\ reconnects <= drops
    /\ ReconnectAttempts <= 1

\* C7: disconnect_and_stop clears auto_reconnect before it closes the
\* transport, and no connection attempt is started as a consequence of
\* the deliberate shutdown.
C7_ShutdownStartsNoAttempt ==
    [][/\ (userPc = "das_close" /\ sock' # sock) => ~auto_reconnect
       /\ shutdown => \A c \in Causes : attempts'[c] <= attempts[c]]_vars

(***************************************************************************)
(* Properties: order tracking.                                             *)
(***************************************************************************)
OrderStatusStep ==
    \E o \in OrderIds : \E st \in Statuses : \E f \in Fills :
        OrderStatus(o, st, f[1], f[2], f[3])

\* C8: once an order record has a Filled or Cancelled status, no later
\* orderStatus callback changes its status, and is_complete, once true, is
\* never false again.
C8_TerminalIsFinal ==
    [][OrderStatusStep
          => \A o \in DOMAIN orders :
                /\ orders[o].status \in {"Filled", "Cancelled"}
                      => orders'[o].status = orders[o].status
                /\ orders[o].is_complete => orders'[o].is_complete]_vars

\* C9: after any sequence of callbacks, an order's stored status,
\* filled_quantity, remaining_quantity and avg_fill_price are those of the
\* most recently delivered orderStatus callback for the order id; execution
\* and commission callbacks never change them.
C9_StoredIsLastStatus ==
    \A o \in DOMAIN lastStatusCb :
       /\ o \in DOMAIN orders
       /\ orders[o].status = lastStatusCb[o].status
       /\ orders[o].filled_quantity = lastStatusCb[o].filled
       /\ orders[o].remaining_quantity = lastStatusCb[o].remaining
       /\ orders[o].avg_fill_price = lastStatusCb[o].avg_fill_price

\* C9 witness: a status callback reported a fill, and an execution and its
\* commission were delivered for the same order afterwards.
C9_Witness ==
    \E o \in DOMAIN lastStatusCb :
       /\ o \in DOMAIN orders
       /\ lastStatusCb[o].filled = 1
       /\ Len(execLists[orders[o].executions]) > 0
       /\ execObjs[execLists[orders[o].executions][1]].commission # <<>>

\* C10: an orderStatus callback for an order id that is not in the order map
\* creates a record for it that carries the callback's status and
\* quantities, with is_complete set according to the status and an empty
\* list of executions of its own.
C10_UnknownOrderSynthesized ==
    [][\A o \in OrderIds : \A st \in Statuses : \A f \in Fills :
          (o \notin DOMAIN orders /\ OrderStatus(o, st, f[1], f[2], f[3]))
             => /\ o \in DOMAIN orders'
                /\ orders'[o] =
                      [contract |-> "None", order |-> "None", status |-> st,
                       filled_quantity |-> f[1], avg_fill_price |-> f[3],
                       remaining_quantity |-> f[2],
                       is_complete |-> st \in {"Filled", "Cancelled",
                                               "ApiCancelled"},
                       executions |-> Len(execLists) + 1]
                /\ Len(execLists') = Len(execLists) + 1
                /\ execLists'[Len(execLists) + 1] = <<>>]_vars

\* C10 witness: a record synthesized from a terminal status callback.
C10_Witness ==
    \E o \in DOMAIN orders :
       orders[o].contract = "None" /\ orders[o].is_complete

\* C11: delivering an orderStatus callback whose arguments are those of
\* the callback delivered before it for the same order id leaves the order
\* map, the execution lists and the execution records as they were.
C11_StatusIdempotent ==
    [][\A o \in OrderIds : \A st \in Statuses : \A f \in Fills :
          (/\ o \in DOMAIN lastStatusCb
           /\ lastStatusCb[o] = StatusArgs(st, f[1], f[2], f[3])
           /\ OrderStatusCallback(o, st, f[1], f[2], f[3]))
             => /\ orders' = orders
                /\ execLists' = execLists
                /\ execObjs' = execObjs
                /\ executions' = executions]_vars

\* C11 witness: a fill was reported twice in succession for a tracked order.
C11_Witness ==
    /\ statusRepeat
    /\ \E o \in DOMAIN lastStatusCb :
          o \in DOMAIN orders /\ lastStatusCb[o].filled = 1

\* C12: for every execution id that both an execDetails and a
\* commissionReport callback have been delivered for, in either order, the
\* record stored under the id, and every copy of it in an order's execution
\* list, carries the commission.
C12_CommissionReconciled ==
    \A e \in reported \cap DOMAIN executions :
       /\ execObjs[executions[e]].commission # <<>>
       /\ \A l \in 1..Len(execLists) : \A i \in 1..Len(execLists[l]) :
             execObjs[execLists[l][i]].exec_id = e
                => execObjs[execLists[l][i]].commission # <<>>

\* C13: once the execution record stored under an id has a commission, no
\* later callback changes the record stored under that id.
C13_CommissionedIsImmutable ==
    [][\A e \in DOMAIN executions :
          execObjs[executions[e]].commission # <<>>
             => /\ e \in DOMAIN executions'
                /\ execObjs'[executions'[e]] = execObjs[executions[e]]]_vars

\* C14: what the caller of get_order_status read in the returned dict is
\* what it reads there in every later state: no orderStatus, execDetails or
\* commissionReport callback changes a returned snapshot.
C14_SnapshotIsFrozen ==
    snapshot # <<>> => Reading(snapshot[1].rec) = snapshot[1].seen

\* The state update of the callback whose handler is running is in place.
Applied(h) ==
    CASE h.kind = "status" ->
           /\ h.id \in DOMAIN orders
           /\ <<orders[h.id].status, orders[h.id].filled_quantity,
                orders[h.id].remaining_quantity,
                orders[h.id].avg_fill_price>> = h.input
      [] h.kind = "execution" ->
           /\ h.input[1] \in DOMAIN executions
           /\ h.id \in DOMAIN orders
              => \E i \in 1..Len(execLists[orders[h.id].executions]) :
                    execLists[orders[h.id].executions][i] =
                       executions[h.input[1]]
      [] h.kind = "tick" ->
           /\ h.id \in DOMAIN market_data
           /\ Len(market_data[h.id].raw_ticks) > 0
           /\ market_data[h.id].raw_ticks[Len(market_data[h.id].raw_ticks)]
                 = h.input
      [] h.kind = "bar" ->
           /\ h.id \in DOMAIN historical_data
           /\ Len(historical_data[h.id].bars) > 0
           /\ historical_data[h.id].bars[Len(historical_data[h.id].bars)]
                 = h.input[1]

\* C15: an exception raised by a status, execution, tick or bar handler
\* does not propagate to the delivery thread, the state update of the
\* callback is in place while its handler runs, and the delivery thread
\* stays able to deliver later callbacks.
C15_HandlerErrorsContained ==
    /\ deliveryThread = "running"
    /\ handler # <<>> => Applied(handler[1])

\* C15 witness: a handler has raised and a later callback has been
\* delivered, whose handler is running.
C15_Witness ==
    /\ loggedErrors # {}
    /\ handler # <<>>
    /\ Applied(handler[1])

\* C16: while a status or execution handler runs, the delivery thread does
\* not hold orders_lock, so a call the handler makes on the manager and any
\* other thread's access to the order map go through.
C16_HandlersRunUnlocked ==
    (handler # <<>> /\ handler[1].kind \in {"status", "execution"})
       => orders_lock = "free"

\* C16 witness: a status handler has called back into the manager and the
\* call has returned.
C16_Witness ==
    handler # <<>> /\ handler[1].kind = "status" /\ handler[1].queried

\* C17: every mutation of the order map and its execution records is made
\* while holding orders_lock, and every mutation of the market-data map
\* while holding a market-data lock.
C17_MutationsHoldLock ==
    ordersLockless = {} /\ quotesLockless = {}

(***************************************************************************)
(* Properties: the bar store.                                              *)
(***************************************************************************)
\* The positions of the bars that lack an OHLC value.
Lacking(bars) == {i \in 1..Len(bars) : ~HasOHLC(bars[i])}

\* C18: price_data never has two rows with the same (symbol, timeframe,
\* timestamp, data_type); every call returns a dict to its caller; and when
\* a call writes a bar whose key had a row before the call, the one row of
\* that key holds the bar's values after the call.
C18_OneRowLastWriteWins ==
    /\ \A i, j \in 1..Len(price_data) :
          price_data[i].key = price_data[j].key => i = j
    /\ \A n \in 1..Len(harvests) :
          LET h == harvests[n]
          IN  /\ h.result.status \in {"success", "partial", "failed",
                                      "empty", "no_data"}
              /\ \A i \in 1..Len(h.bars) :
                    (/\ HasOHLC(h.bars[i])
                     /\ KeyIn(h.before, BarKey(h.symbol, h.bars[i])))
                       => \E r \in 1..Len(h.after) :
                             h.after[r] = BarValues(h.symbol, h.bars[i])

\* C19: a harvest of the symbol and bars of the harvest before it reports
\* added = 0 and leaves the rows of price_data, their number and their
\* values, as the first harvest left them.
C19_SecondHarvestAddsNothing ==
    \A n \in 2..Len(harvests) :
       (/\ harvests[n].symbol = harvests[n - 1].symbol
        /\ harvests[n].bars = harvests[n - 1].bars)
          => /\ harvests[n].result.added = <<0>>
             /\ harvests[n].after = harvests[n - 1].after

\* The bars have timestamps of their own.
DistinctDates(bars) ==
    \A i, j \in 1..Len(bars) : bars[i].date = bars[j].date => i = j

\* C20: a harvest of n bars at distinct timestamps, k of them lacking an
\* OHLC value, into an empty store returns processed = n, added = n - k,
\* errors = k, and status "partial" when k > 0.
C20_PartialHarvest ==
    \A n \in 1..Len(harvests) :
       LET h == harvests[n]
           k == Cardinality(Lacking(h.bars))
       IN  (h.before = <<>> /\ h.meta = EmptyMap /\ DistinctDates(h.bars))
              => /\ h.result.processed = <<Len(h.bars)>>
                 /\ h.result.added = <<Len(h.bars) - k>>
                 /\ h.result.errors = <<k>>
                 /\ k > 0 => h.result.status = "partial"

\* A call of _store_bars that an exception left through the except clause
\* of database_storage.py:350-374.
Escaped(h) == h.entry = "_store_bars" /\ h.result.status = "failed"

\* A call of _store_bars that committed its transaction.
Committed(h) == h.entry = "_store_bars" /\ h.result.status = "success"

\* C21: when an exception escapes the batch in _store_bars, price_data and
\* symbols_meta are as they were before the call, and harvest_log has one
\* more row, with status "failed".
C21_FailedBatchRolledBackAndLogged ==
    \A n \in 1..Len(harvests) :
       Escaped(harvests[n])
          => /\ harvests[n].after = harvests[n].before
             /\ harvests[n].metaAfter = harvests[n].meta
             /\ harvests[n].logAfter = Append(harvests[n].log, "failed")

\* C22: a bar that fails does not stop the batch: in a call of _store_bars
\* that has reached its loop, every bar with its OHLC values that is the
\* first of its timestamp has its row after the call; and the statistics
\* of a committed batch have processed equal to the number of bars and to
\* added + updated + errors.
C22_BarFailureSkipsOnlyThatBar ==
    \A n \in 1..Len(harvests) :
       LET h == harvests[n]
       IN  /\ (h.entry = "_store_bars" /\ h.symbol \notin DOMAIN h.meta)
                => \A i \in 1..Len(h.bars) :
                      (/\ HasOHLC(h.bars[i])
                       /\ \A j \in 1..(i - 1) :
                             h.bars[j].date # h.bars[i].date)
                         => \E r \in 1..Len(h.after) :
                               h.after[r] = BarValues(h.symbol, h.bars[i])
           /\ Committed(h)
                => /\ h.result.processed = <<Len(h.bars)>>
                   /\ h.result.processed[1] =
                         h.result.added[1] + h.result.updated[1]
                            + h.result.errors[1]

\* The committed harvests of a symbol.
CommittedOf(sym) ==
    {n \in 1..Len(harvests) :
        harvests[n].symbol = sym /\ Committed(harvests[n])}

\* The timestamps of the vendor's bars of the committed harvests of a symbol.
CommittedDates(sym) ==
    UNION {{harvests[n].bars[i].date : i \in 1..Len(harvests[n].bars)} :
              n \in CommittedOf(sym)}

FailedSymbols ==
    {i \in 1..symbols :
        \E t \in 1..Len(work[i].attempted) :
           work[i].attempted[t] \in {"failed", "raises"}}

C29_HarvestStoresVendorBars ==
    /\ "data_feed" \in harvesterAttrs
    /\ \A n \in 1..Len(harvests) :
          LET h == harvests[n]
              out == StoreBarsOutcome(h.before, h.meta, h.log, h.symbol,
                                      h.bars)
          IN  (h.entry = "harvest_data" /\ h.bars # <<>>) =>
                  /\ h.result = out.stats
                  /\ h.after = out.rows
                  /\ h.metaAfter = out.meta
                  /\ h.logAfter = out.log

(***************************************************************************)
(* Properties: verify_data_integrity.                                      *)
(***************************************************************************)
\* The gaps reported for the consecutive rows i and i + 1.
GapsOf(i) ==
    LET v == verification[1]
    IN  {j \in 1..Len(v.gaps) :
            /\ v.gaps[j].start = data[i].timestamp
            /\ v.gaps[j].end = data[i + 1].timestamp}

Delta(i) == data[i + 1].timestamp - data[i].timestamp

\* Exactly one gap is reported for the rows i and i + 1, and it counts
\* floor(diff / s) - 1 missing bars.
OneGap(i, s) ==
    /\ Cardinality(GapsOf(i)) = 1
    /\ \A j \in GapsOf(i) :
          verification[1].gaps[j].missing_bars = (Delta(i) \div s) - 1

\* The pairs of consecutive rows more than 1.5 nominal spacings s apart.
WidePairs(s) == {i \in 1..(Len(data) - 1) : 2 * Delta(i) > 3 * s}

\* C25, as stated: once verify_data_integrity has returned on rows of
\* which exactly one consecutive pair is more than 1.5 times the nominal
\* spacing s apart, it has reported exactly one gap, for that pair, with
\* floor(diff / s) - 1 missing bars; and it never reports a gap for a pair
\* at most 1.5 times s apart.
C25_GapAboveOneAndAHalfSpacings ==
    (verification # <<>> /\ data # <<>>) =>
        LET s == TimeframeToSeconds(timeframe)
        IN  /\ Cardinality(WidePairs(s)) = 1 =>
                  /\ Len(verification[1].gaps) = 1
                  /\ \A i \in WidePairs(s) : OneGap(i, s)
            /\ \A i \in 1..(Len(data) - 1) :
                  i \notin WidePairs(s) => GapsOf(i) = {}

\* C25, amended: once verify_data_integrity has returned, it has reported
\* exactly one gap, with floor(diff / s) - 1 missing bars, for every pair
\* of consecutive rows more than 1.575 times the nominal spacing s apart
\* (1.5 times s widened by the 5% tolerance), and no gap for any other
\* pair.
C25_GapAboveToleratedSpacing ==
    (verification # <<>> /\ data # <<>>) =>
        LET s == TimeframeToSeconds(timeframe)
        IN  \A i \in 1..(Len(data) - 1) :
                IF 40 * Delta(i) > 63 * s
                THEN OneGap(i, s)
                ELSE GapsOf(i) = {}

\* Verified rows of which one pair is 2.25 spacings apart, reported as a
\* gap of one missing bar, and one pair is 1.55 spacings apart.
C25_Witness ==
    /\ verification # <<>>
    /\ Len(data) = 3
    /\ LET s == TimeframeToSeconds(timeframe)
       IN  /\ 20 * Delta(1) = 45 * s
           /\ 20 * Delta(2) = 31 * s
    /\ Len(verification[1].gaps) = 1
    /\ verification[1].gaps[1].missing_bars = 1

\* C26: every stored bar whose high is below its low has a quality score
\* within [0, 1] and below 0.7, and once verify_data_integrity has returned
\* on rows containing it, the result lists a high_below_low anomaly at its
\* timestamp and has status anomalies_found or issues_found.
C26_InvertedBarScoredLowAndFlagged ==
    \A i \in 1..Len(data) :
        data[i].high < data[i].low =>
            /\ data[i].data_quality \in 0..10
            /\ data[i].data_quality < 7
            /\ verification # <<>> =>
                  LET v == verification[1]
                  IN  /\ \E j \in 1..Len(v.anomalies) :
                            /\ v.anomalies[j].timestamp = data[i].timestamp
                            /\ v.anomalies[j].type = "high_below_low"
                      /\ v.status \in {"anomalies_found", "issues_found"}

\* Verified rows with a gap and a bar whose high is below its low.
C26_Witness ==
    /\ verification # <<>>
    /\ \E i \in 1..Len(data) : data[i].high < data[i].low
    /\ \E i \in 1..Len(data) : data[i].high >= data[i].low
    /\ verification[1].status = "issues_found"

(***************************************************************************)
(* Properties: _calculate_data_quality.                                    *)
(***************************************************************************)
\* All four of open, high, low and close are present and positive, and
\* high and low bound open and close.
Consistent(bar) ==
    /\ HasOHLC(bar)
    /\ \A key \in OHLC : bar[key][1] > 0
    /\ bar.high[1] >= Max2(bar.open[1], bar.close[1])
    /\ bar.low[1] <= Min2(bar.open[1], bar.close[1])

\* C27: once _calculate_data_quality has been called on a bar, if one of
\* its open, high, low and close is absent or None the call has returned,
\* not raised, a score below 0.8, and if the bar is complete, positive and
\* consistent the call has returned exactly 1.0.
C27_MissingValueScoredLow ==
    score # <<>> =>
        /\ ~HasOHLC(scoredBar) =>
              ~score[1].raised /\ score[1].quality < 8
        /\ Consistent(scoredBar) =>
              ~score[1].raised /\ score[1].quality = 10

(***************************************************************************)
(* Properties: _parse_bar_timestamp.                                       *)
(***************************************************************************)
StartsWith(s, prefix) ==
    Len(s) >= Len(prefix) /\ SubSeq(s, 1, Len(prefix)) = prefix

\* The text starts with the 15th of January 2023, compact or dashed.
StartsWithDate(s) ==
    \/ StartsWith(s, <<"2", "0", "2", "3", "0", "1", "1", "5">>)
    \/ StartsWith(s, <<"2", "0", "2", "3", "-", "0", "1", "-", "1", "5">>)

\* The returned datetime is at n seconds, for n at most 1e10, or at
\* n / 1000 seconds, for n above 1e10, since the epoch.
AtEpoch(value, n) ==
    LET e == value.epoch
    IN  IF n.millions > 10000 \/ (n.millions = 10000 /\ n.units > 0)
        THEN /\ e[1] * 1000 + e[2] \div 1000 = n.millions
             /\ (e[2] % 1000) * 1000 + e[3] = n.units
        ELSE e = <<n.millions, n.units, 0>>

\* C28: once _parse_bar_timestamp has been called on a bar, it has
\* returned, not raised, a datetime: the bar's date itself when that is a
\* datetime; the instant a numeric date names, in milliseconds when above
\* 1e10 and in seconds otherwise, or the current time when that instant is
\* out of range; for a str either the 15th of January 2023 its text
\* starts with or the current time, and the current time when the text
\* starts with no valid date; and the current time when the date is None
\* or missing.
C28_TimestampParsedOrNow ==
    timestamp # <<>> =>
        LET out == timestamp[1]
            given == "date" \in DOMAIN datedBar
            type == IF given THEN datedBar.date.type ELSE "missing"
        IN  /\ ~out.raised
            /\ out.value.type = "datetime"
            /\ type \in {"missing", "NoneType"} => out.value = Now
            /\ type = "datetime" => out.value = datedBar.date
            /\ type = "number" =>
                  IF datedBar.date.millions < 253402300
                  THEN AtEpoch(out.value, datedBar.date)
                  ELSE out.value = Now
            /\ type = "str" =>
                  /\ \/ out.value = Now
                     \/ /\ StartsWithDate(datedBar.date.text)
                        /\ SubSeq(out.value.civil, 1, 3) = <<2023, 1, 15>>
                  /\ ~StartsWithDate(datedBar.date.text) => out.value = Now

\* A str with a time-zone name has been converted, and so has a numeric
\* date in milliseconds.
C28_Witness ==
    /\ timestamp # <<>>
    /\ "date" \in DOMAIN datedBar
    /\ \/ /\ datedBar.date.type = "str"
          /\ datedBar.date.zone # <<>>
          /\ timestamp[1].value =
                 [type |-> "datetime", civil |-> <<2023, 1, 15, 10, 30, 0>>,
                  aware |-> FALSE]
       \/ /\ datedBar.date.type = "number"
          /\ timestamp[1].value =
                 [type |-> "datetime", epoch |-> <<1, 673778600, 123>>]

(***************************************************************************)
(* Properties: harvesting_loop.                                            *)
(***************************************************************************)
\* Every symbol with every timeframe, in the order of the two loops.
AllPairs ==
    LET m == Len(clientTimeframes)
    IN  [k \in 1..(clientSymbols * m) |->
            <<((k - 1) \div m) + 1, ((k - 1) % m) + 1>>]

\* C31: when a pass of harvesting_loop has ended and the cancellation flag
\* is not set, harvest_data has been called in it exactly once for every
\* symbol and timeframe, in order, and the thread is in the wait between
\* passes or has completed it; and the loop ends only with the flag set.
C31_PassAttemptsEveryPair ==
    /\ (passes > 0 /\ ~stop_event /\ loopPc \in {"wait", "sleep", "while"})
          => attempted = AllPairs
    /\ (~stop_event) => loopPc \notin {"retry", "done"}

C32_DelayedPriceReturned ==
    /\ glPc = "returned"
    /\ \E k \in 1..Len(glTicks) : glTicks[k] = <<68, 10>>
    => glResult = <<10>>

\* C33: however a get_last_price call that subscribed ends, its
\* subscription is gone from the market-data map and from the tick
\* handlers, and the subscriptions there when it was called remain.
C33_SubscriptionRemoved ==
    /\ glPc \in {"returned", "raised"}
    /\ glId # 0
    => /\ glId \notin DOMAIN market_data
       /\ glId \notin tick_callbacks
       /\ DOMAIN glBefore \subseteq DOMAIN market_data

\* The request, quote and bar state of the client and the feed, and what a
\* callback that raised or called a handler would leave behind.
RegisteredState ==
    <<responses, response_events, evFlag, market_data, historical_data,
      tick_callbacks, bar_callbacks, handler, deliveryThread, loggedErrors>>

\* C34: a tick, historical-bar, end-of-data or account-summary callback for
\* an id that the map it looks in does not hold changes nothing of the
\* request, quote and bar state, calls no handler and raises nothing.
C34_UnregisteredCallbackChangesNothing ==
    [][unsolicited' # unsolicited => UNCHANGED RegisteredState]_vars

\* A callback has been delivered for an id that was issued and is
\* registered nowhere any more: the subscription made with it has been
\* cancelled.
C34_Witness ==
    /\ unsolicited
    /\ req_id = 1
    /\ issuedMax = 1
    /\ "cancel_market_data" \in quotesLockless
    /\ market_data = EmptyMap

\* C35: no trade is both active and in the history, no trade is in the
\* history twice, and the active trades have no terminal status: a FILLED
\* or CANCELLED update moves the trade to the history, any other keeps it
\* active.
C35_TerminalTradeMovesToHistory ==
    /\ \A id \in DOMAIN active_trades :
          /\ active_trades[id].status \notin {"FILLED", "CANCELLED"}
          /\ \A k \in 1..Len(trade_history) : trade_history[k].id # id
    /\ \A k, j \in 1..Len(trade_history) :
          trade_history[k].id = trade_history[j].id => k = j

\* C36: at most one harvesting thread of the HarvesterClient is inside a
\* harvest at any time.
C36_OneThreadHarvests ==
    \A a, b \in 1..Len(threads) :
       threads[a] = "harvest" /\ threads[b] = "harvest" => a = b

\* A session is shut: not connected and not allowed to reconnect.
Shut(session) == ~session.connected /\ ~session.auto_reconnect

\* C37: once stop has returned True or start has returned False, the
\* sessions the client opened, the base client's and the data feed's, are
\* neither connected nor allowed to reconnect.
C37_SessionsShutAfterStop ==
    hcResult \in {"stop: True", "start: False"}
    => /\ client.opened => Shut(client)
       /\ data_feed # <<>> /\ data_feed[1].opened => Shut(data_feed[1])

C39_NoCancelOfCompleteOrder ==
    \A c \in cancels : ~c.is_complete /\ c.order_id \in DOMAIN orders

\* C40: every order this manager has sent to the gateway has the record
\* place_order made, with its contract, and the handlers the call was
\* given are registered for it: no callback for it finds the id unknown,
\* a record without a contract, or no handler.
C40_RecordedBeforeTransmitted ==
    \A o \in DOMAIN transmitted :
       /\ o \in DOMAIN orders
       /\ orders[o].contract = "contract"
       /\ transmitted[o].status_callback => o \in order_status_callbacks
       /\ transmitted[o].execution_callback => o \in execution_callbacks

\* The gateway has reported an order sent with handlers as filled, its
\* execution has arrived, and the status handler is running.
C40_Witness ==
    /\ \E o \in DOMAIN transmitted :
          /\ transmitted[o].status_callback
          /\ orders[o].status = "Filled"
          /\ execLists[orders[o].executions] # <<>>
    /\ handler # <<>>
    /\ handler[1].kind = "status"

(***************************************************************************)
(* The session on its own, auto_reconnect as constructed.                  *)
(***************************************************************************)
\* The objects whose operations a specification does not exercise, as
\* constructed and given their simplest arguments.
IntegrityIdle == IntegrityInit([count |-> 1, unit |-> "day"], <<>>, <<>>)

QualityIdle == QualityInit([key \in OHLC |-> <<1>>])

ParseIdle == ParseInit([date |-> Now])

LoopIdle == LoopInit(1, <<TRUE>>, 1)

PriceIdle == PriceInit

TradeIdle == TradeInit

ClientIdle == ClientInit

ReadIdle == ReadInit

CallsIdle == CallsInit

ToolsInit ==
    /\ MultiInit(1, 1, 1)
    /\ IntegrityIdle
    /\ QualityIdle
    /\ ParseIdle
    /\ LoopIdle
    /\ PriceIdle
    /\ TradeIdle
    /\ ClientIdle
    /\ ReadIdle
    /\ CallsIdle

CoreInit ==
    /\ SessionInit(FALSE, MaxOpensReq)
    /\ RequestInit
    /\ OrdersInit
    /\ StoreInit

InitSession ==
    /\ \E a \in BOOLEAN : SessionInit(a, MaxOpens)
    /\ RequestInit
    /\ OrdersInit
    /\ StoreInit
    /\ ToolsInit

NextSession == SessionBasic \/ SessionFaults

SpecSession == InitSession /\ [][NextSession]_vars

(***************************************************************************)
(* The request-id counter: a client constructed without auto-reconnect,    *)
(* callers that take ids, and the gateway's nextValidId.                   *)
(***************************************************************************)
InitReq ==
    /\ SessionInit(FALSE, MaxOpensReq)
    /\ RequestInit
    /\ OrdersInit
    /\ StoreInit
    /\ ToolsInit

NextIds ==
    \/ SessionBasic
    \/ GetNextReqId
    \/ \E q \in Quantities : \E a \in OrderActions : PlaceMarketOrder(q, a)
    \/ \E n \in ReqIds : NextValidId(n)

SpecIds == InitReq /\ [][NextIds]_vars

(***************************************************************************)
(* The request-issuing operations of the client, the data feed and the     *)
(* order manager, on a session that is brought up and torn down.           *)
(***************************************************************************)
NextOps == SessionBasic \/ RequestOps

SpecOps == InitReq /\ [][NextOps]_vars

(***************************************************************************)
(* Waiting for an account summary: registration, the gateway's callbacks   *)
(* and the threads that call get_account_summary_result.  The gateway      *)
(* sends no nextValidId here, so every registration has an id of its own.  *)
(***************************************************************************)
NextAwait ==
    \/ SessionBasic
    \/ \E ok \in BOOLEAN : RequestAccountSummary(ok)
    \/ AccountCallbacks
    \/ Awaiting

SpecAwait == InitReq /\ [][NextAwait]_vars

(***************************************************************************)
(* The same, with the gateway's nextValidId callbacks.                     *)
(***************************************************************************)
NextAwaitIds ==
    \/ NextAwait
    \/ \E n \in ReqIds : NextValidId(n)

SpecAwaitIds == InitReq /\ [][NextAwaitIds]_vars

(***************************************************************************)
(* Order tracking: orders placed on a session that is brought up and       *)
(* stays up, and the gateway's order callbacks.                            *)
(***************************************************************************)
SessionUp ==
    \/ UserConnect
    \/ ConnectAck
    \/ \E c \in Callers : CarConnected(c)

NextOrders ==
    \/ SessionUp
    \/ \E q \in Quantities \ {0} : PlaceOrder(q, FALSE, FALSE)
    \/ OrderCallbacks

SpecOrders == InitReq /\ [][NextOrders]_vars

(***************************************************************************)
(* Executions and commissions: the gateway's order callbacks, with         *)
(* execDetails delivered more than once.                                   *)
(***************************************************************************)
NextExecs ==
    \/ \E o \in OrderIds : \E st \in Statuses : \E f \in Fills :
           OrderStatusNoted(o, st, f[1], f[2], f[3])
    \/ \E o \in OrderIds : \E e \in ExecIds :
           ExecDetailsWithin(o, e, MaxExecRepeats)
    \/ \E e \in ExecIds : CommissionReportNoted(e, 1)

SpecExecs == InitReq /\ [][NextExecs]_vars

(***************************************************************************)
(* Snapshots: a user thread that calls get_order_status while the gateway  *)
(* delivers order callbacks.                                               *)
(***************************************************************************)
NextSnapshot ==
    \/ NextOrders
    \/ \E o \in OrderIds : GetOrderStatus(o)

SpecSnapshot == InitReq /\ [][NextSnapshot]_vars

(***************************************************************************)
(* Handlers: orders and subscriptions registered with handlers, the        *)
(* gateway's callbacks, and handlers that return, raise or call back.      *)
(***************************************************************************)
NextHandlers ==
    \/ SessionUp
    \/ PlaceOrder(1, TRUE, TRUE)
    \/ RequestMarketData(TRUE)
    \/ RequestHistoricalData(TRUE)
    \/ \E o \in OrderIds : OrderStatus(o, "Filled", 1, 0, 100)
    \/ \E o \in OrderIds : \E e \in ExecIds : ExecDetails(o, e)
    \/ \E id \in ReqIds : TickPrice(id, 4, 10)
    \/ \E id \in ReqIds : HistoricalData(id, "bar")
    \/ HandlerSteps

SpecHandlers == InitReq /\ [][NextHandlers]_vars

(***************************************************************************)
(* Locking: every operation that writes the order map, an execution        *)
(* record or the market-data map.                                          *)
(***************************************************************************)
NextLocks ==
    \/ SessionUp
    \/ \E q \in Quantities \ {0} : PlaceOrder(q, FALSE, FALSE)
    \/ OrderCallbacks
    \/ \E cb \in BOOLEAN : RequestMarketData(cb)
    \/ \E id \in ReqIds : CancelMarketData(id)
    \/ \E id \in ReqIds : \E f \in PriceFields : TickPrice(id, f, 10)
    \/ \E id \in ReqIds : \E f \in SizeFields : TickSize(id, f, 5)
    \/ HandlerReturns

SpecLocks == InitReq /\ [][NextLocks]_vars

(***************************************************************************)
(* The bar store: harvests of one symbol, through harvest_data and through *)
(* _store_bars, one after the other (self._lock, database_storage.py:205,  *)
(* lets one _store_bars run at a time).                                     *)
(***************************************************************************)
NextStore ==
    \/ \E sym \in Symbols : \E bars \in Responses : StoreBars(sym, bars)
    \/ \E sym \in Symbols : \E bars \in Responses : HarvestData(sym, bars)

SpecStore == InitReq /\ [][NextStore]_vars

(***************************************************************************)
(* Symbol metadata: batches stored through _store_bars, whose bars are     *)
(* at timestamps of their own and of which the first may lack a value.     *)
(***************************************************************************)
NextMeta ==
    \E sym \in Symbols : \E start \in 1..MaxStart : \E n \in 1..MaxResponse :
       \E lacking \in SUBSET {1} :
          StoreBars(sym, Response(Dates(start, n, 0), 1, lacking))

SpecMeta == InitReq /\ [][NextMeta]_vars

(***************************************************************************)
(* harvest_multiple_symbols, sequential and parallel.                      *)
(***************************************************************************)
InitMulti ==
    /\ SessionInit(FALSE, MaxOpensReq)
    /\ RequestInit
    /\ OrdersInit
    /\ StoreInit
    /\ \E n \in 1..MaxSymbols : \E t \in 1..MaxTimeframes :
          \E p \in 1..MaxParallel : MultiInit(n, t, p)
    /\ IntegrityIdle
    /\ QualityIdle
    /\ ParseIdle
    /\ LoopIdle
    /\ PriceIdle
    /\ TradeIdle
    /\ ClientIdle
    /\ ReadIdle
    /\ CallsIdle

NextMulti ==
    \/ \E i \in 1..symbols : StartSymbol(i)
    \/ \E i \in 1..symbols : \E o \in Outcomes : HarvestTimeframe(i, o)
    \/ \E i \in 1..symbols : RecordSymbol(i)
    \/ \E i \in 1..symbols : SymbolReturns(i)
    \/ \E i \in 1..symbols : CollectSymbol(i)
    \/ ReturnResults

SpecMulti == InitMulti /\ [][NextMulti]_vars

(***************************************************************************)
(* verify_data_integrity on the results the query can return.              *)
(***************************************************************************)
InitIntegrity ==
    /\ CoreInit
    /\ MultiInit(1, 1, 1)
    /\ QualityIdle
    /\ ParseIdle
    /\ LoopIdle
    /\ PriceIdle
    /\ TradeIdle
    /\ ClientIdle
    /\ ReadIdle
    /\ CallsIdle
    /\ \E tf \in Timeframes : \E n \in 0..MaxData :
          \E steps \in [1..(n - 1) -> DeltaSteps] :
             \E quotes \in [1..n -> Quotes] :
                IntegrityInit(tf, steps, quotes)

NextIntegrity == VerifyDataIntegrity

SpecIntegrity == InitIntegrity /\ [][NextIntegrity]_vars

(***************************************************************************)
(* _calculate_data_quality on the bars a caller can pass.                  *)
(***************************************************************************)
InitQuality ==
    /\ CoreInit
    /\ MultiInit(1, 1, 1)
    /\ IntegrityIdle
    /\ ParseIdle
    /\ LoopIdle
    /\ PriceIdle
    /\ TradeIdle
    /\ ClientIdle
    /\ ReadIdle
    /\ CallsIdle
    /\ \E bar \in ScoredBars : QualityInit(bar)

NextQuality == CalculateDataQualityCall

SpecQuality == InitQuality /\ [][NextQuality]_vars

(***************************************************************************)
(* _parse_bar_timestamp on the bars a caller can pass.                     *)
(***************************************************************************)
InitParse ==
    /\ CoreInit
    /\ MultiInit(1, 1, 1)
    /\ IntegrityIdle
    /\ QualityIdle
    /\ LoopIdle
    /\ PriceIdle
    /\ TradeIdle
    /\ ClientIdle
    /\ ReadIdle
    /\ CallsIdle
    /\ \E bar \in DatedBars : ParseInit(bar)

NextParse == ParseBarTimestampCall

SpecParse == InitParse /\ [][NextParse]_vars

(***************************************************************************)
(* harvesting_loop and stop().  The harvesting thread is scheduled again   *)
(* and again, and harvest_data and time.sleep return.                      *)
(***************************************************************************)
InitLoop ==
    /\ CoreInit
    /\ MultiInit(1, 1, 1)
    /\ IntegrityIdle
    /\ QualityIdle
    /\ ParseIdle
    /\ PriceIdle
    /\ TradeIdle
    /\ ClientIdle
    /\ ReadIdle
    /\ CallsIdle
    /\ \E n \in 1..MaxSymbols : \E k \in 1..MaxTimeframes :
          \E tfs \in [1..k -> BOOLEAN] : \E seconds \in 1..MaxInterval :
             LoopInit(n, tfs, seconds)

NextLoop == StopEventSet \/ HarvestingLoop

SpecLoop == InitLoop /\ [][NextLoop]_vars /\ WF_vars(HarvestingLoop)

(***************************************************************************)
(* get_last_price on a session that comes up and can drop, with a          *)
(* subscription made before it and the gateway's price ticks.              *)
(***************************************************************************)
NextPrice ==
    \/ SessionUp
    \/ TransportDrop
    \/ ConnectionClosed("unexpected")
    \/ RequestMarketData(FALSE)
    \/ \E id \in ReqIds : \E f \in LastFields : TickPrice(id, f, 10)
    \/ GetLastPrice

SpecPrice == InitReq /\ [][NextPrice]_vars

(***************************************************************************)
(* The gateway's data callbacks for ids of every kind: never issued,       *)
(* issued and registered, cancelled, consumed.                             *)
(***************************************************************************)
NextUnsolicited ==
    \/ SessionUp
    \/ RequestMarketData(FALSE)
    \/ \E id \in ReqIds : CancelMarketData(id)
    \/ RequestHistoricalData(FALSE)
    \/ RequestAccountSummary(TRUE)
    \/ \E id \in ReqIds : TickPrice(id, 4, 10)
    \/ \E id \in ReqIds : TickSize(id, 8, 5)
    \/ \E id \in ReqIds : HistoricalData(id, "bar")
    \/ \E id \in ReqIds : HistoricalDataEnd(id)
    \/ AccountCallbacks
    \/ \E id \in ReqIds : GasrCheck(1, id)
    \/ GasrLookup(1)
    \/ GasrWake(1)
    \/ GasrTimeout(1)
    \/ GasrPopResponses(1)
    \/ GasrPopEvent(1)

SpecUnsolicited == InitReq /\ [][NextUnsolicited]_vars

(***************************************************************************)
(* The trade manager: trades placed and the status updates of their        *)
(* orders.                                                                 *)
(***************************************************************************)
NextTrades ==
    \/ \E raises \in BOOLEAN : PlaceTrade(raises)
    \/ \E o \in 1..MaxTrades : \E s \in TradeStatuses : UpdateTrade(o, s)

SpecTrades == InitReq /\ [][NextTrades]_vars

(***************************************************************************)
(* The HarvesterClient: its callers' start, stop, scheduling and           *)
(* update_config, and the harvesting threads they start.                   *)
(***************************************************************************)
NextClient ==
    \/ \E clientOk, feedOk, feedStays \in BOOLEAN :
          Start(clientOk, feedOk, feedStays)
    \/ StartScheduledHarvesting
    \/ \E caller \in {"stop", "update_config"} : StopBegins(caller)
    \/ StopEnds
    \/ \E clientOk, feedOk, feedStays \in BOOLEAN :
          UpdateConfigEnds(clientOk, feedOk, feedStays)
    \/ \E th \in 1..MaxThreads : ThreadChecks(th)
    \/ \E th \in 1..MaxThreads : ThreadHarvested(th)

SpecClient == InitReq /\ [][NextClient]_vars

(***************************************************************************)
(* A harvest reading its bars while the gateway delivers them.             *)
(***************************************************************************)
NextRead ==
    \/ SessionUp
    \/ HarvestRequests
    \/ \E timedOut \in BOOLEAN : GetHistoricalDataReturns(timedOut)
    \/ StoreBarsIterates
    \/ \E id \in ReqIds : \E bar \in {"bar1", "bar2"} :
          HistoricalData(id, bar)
    \/ \E id \in ReqIds : HistoricalDataEnd(id)

SpecRead == InitReq /\ [][NextRead]_vars

(***************************************************************************)
(* Orders placed and cancelled statement by statement, and the gateway's   *)
(* callbacks for the orders it has been sent.                              *)
(***************************************************************************)
NextCalls ==
    \/ SessionUp
    \/ \E h \in HandlerChoices : PlaceOrderRecords(1, h[1], h[2])
    \/ PlaceOrderTransmits
    \/ \E o \in ReqIds : CancelOrderChecks(o)
    \/ CancelOrderTransmits
    \/ \E o \in DOMAIN transmitted : \E st \in Statuses : \E f \in Fills :
          OrderStatus(o, st, f[1], f[2], f[3])
    \/ \E o \in DOMAIN transmitted : \E e \in ExecIds : ExecDetails(o, e)
    \/ HandlerReturns

SpecCalls == InitReq /\ [][NextCalls]_vars

====
